---- MODULE Spec2Model ----
(***************************************************************************)
(* Inventory / marketplace / transfer ledger of cards-backend.             *)
(*                                                                         *)
(* The store is one DynamoDB table; each kind of row is a variable.  Every *)
(* request runs in a process slot; a step of a request is one store call   *)
(* (an await) together with the local computation that follows it.         *)
(***************************************************************************)
EXTENDS Integers, Sequences, FiniteSets, TLC

(* ---------------------------------------------------------------- bounds *)

\* requests the environment starts in one behaviour
MaxRequests == 3
\* requests of the retry scenario (one transfer and its competitors)
MaxRetryRequests == 7

\* requests of a behaviour in which store calls fail
MaxFaultRequests == 2
\* list requests of the scenario that starts one listing below the cap
MaxCapRequests == 2

\* bound of the calendar: the days of a behaviour are 0..MaxDay
MaxDay == 3
Days == 0..MaxDay

\* maxRetries of withRetry and MAX_RETRIES of the hand-written loops
MAX_RETRIES == 5
\* cap of active listings per user
MAX_LISTINGS == 256

Procs == {1, 2}
Users == {"A", "B", "C"}
Cards == {"X", "Y"}
PackNames == {"P"}
Keys == {"k1", "k2"}
Costs == {1, 2}
ListingIds == 1..(MaxRequests + 1)

CardNames == {"Hero"}
\* every card instance of the model is an instance of the same card
cardName(c) == "Hero"

Items == ({"card"} \X CardNames) \cup ({"pack"} \X PackNames)

NoRow == [exists |-> FALSE]

(* ------------------------------------------------------------- inventory *)

\* parseInventoryItem(userId, undefined)
EmptyInv == [exists |-> FALSE, cards |-> <<>>, packs |-> [n \in PackNames |-> 0], version |-> 0]

\* parseInventoryItem(userId, item): a stored row is kept in parsed form
parseInventoryItem(item) == IF item.exists THEN item ELSE EmptyInv

\* cards.findIndex(c => c.cardId === cardId), 0 standing for -1
findIndex(cards, cardId) ==
  IF \E i \in 1..Len(cards) : cards[i] = cardId
  THEN CHOOSE i \in 1..Len(cards) : cards[i] = cardId /\ \A j \in 1..(i - 1) : cards[j] # cardId
  ELSE 0

\* cards.splice(index, 1)
splice(cards, index) == [i \in 1..(Len(cards) - 1) |-> IF i < index THEN cards[i] ELSE cards[i + 1]]

CardSet(cards) == {cards[i] : i \in 1..Len(cards)}

(* ------------------------------------------------------------ variables *)

VARIABLES
  inv,          \* USER#u / INVENTORY rows
  cardListing,  \* LISTING#CARD#cardId / LISTING rows
  packListing,  \* LISTING#PACK#listingId / LISTING rows
  userListings, \* USER_LISTINGS#u rows: <<seller, type, id>>
  itemListings, \* ITEM_LISTINGS#type#name rows: <<type, id>>
  itemAttrs,    \* the listing stored in each ITEM_LISTINGS row
  rap,          \* RAP#type#name / CURRENT rows
  rapRegistry,  \* RAP_REGISTRY rows
  idem,         \* IDEMPOTENCY#key / TRANSFER rows
  req,          \* the request each process is serving, and where it is
  nextListing,  \* listing ids handed out by randomUUID
  started,      \* requests started so far
  live,         \* cards put into an inventory by modify and not removed by it
  minted,       \* card ids the game server has already used in an addCard
  ledger,       \* per user and pack: sum of the deltas of the requests that succeeded
  keyCommits,   \* per idempotency key: inventory transactions committed
  now,          \* Date.now(), in milliseconds
  host,         \* the Node process that runs each request slot
  cache,        \* per Node process: the Map of utils/cache
  history,      \* RAP#type#name / HISTORY#date rows
  activeSeller, \* ACTIVE_SELLER#u / STATUS rows
  rapFold       \* per item: the rolling average over the committed sales, in commit order

vars == <<inv, cardListing, packListing, userListings, itemListings, itemAttrs, rap,
          rapRegistry, idem, req, nextListing, started, live, minted, ledger, keyCommits,
          now, host, cache, history, activeSeller, rapFold>>

market == <<cardListing, packListing, userListings, itemListings, itemAttrs, rap, rapRegistry>>
\* what no request of the inventory, listing, purchase and transfer handlers writes
side == <<now, host, history, activeSeller>>
store == <<inv, market, idem>>

(* -------------------------------------------------------------- requests *)

NoData == <<>>
NoResp == [statusCode |-> 0, msg |-> "", data |-> NoData]
buildResponse(statusCode, msg) == [statusCode |-> statusCode, msg |-> msg, data |-> NoData]

\* the value undefined of a number
Undefined == -1

\* success(data, message)
success(data, msg) == [statusCode |-> 200, msg |-> msg, data |-> data]

Idle ==
  [kind |-> "idle", pc |-> "idle", attempt |-> 0,
   user |-> "", type |-> "", card |-> "", lid |-> 0, pack |-> "", cost |-> 0,
   ops |-> <<>>, key |-> "", legs |-> <<>>,
   rd |-> [u \in Users |-> EmptyInv], wk |-> [u \in Users |-> EmptyInv],
   listing |-> NoRow, rapItem |-> NoRow, wrote |-> FALSE, count |-> 0,
   slept |-> 0, raised |-> "",
   item |-> <<"", "">>, today |-> 0, registry |-> {}, rapRecords |-> <<>>, hist |-> <<>>,
   pending |-> {}, snapshotItems |-> {}, putPending |-> FALSE, updates |-> {},
   fromCache |-> FALSE,
   fetching |-> {}, rapVal |-> Undefined, listings |-> <<>>, missing |-> {},
   sellers |-> <<>>, fetches |-> 0, fetchedKeys |-> {}, entryAsOf |-> 0, startAsOf |-> 0,
   result |-> <<>>, stored |-> <<>>, active |-> FALSE, timestamp |-> 0,
   resp |-> NoResp]

\* a handler returns: the response is kept until the slot is taken again
Respond(r, response) ==
  [r EXCEPT !.pc = "done", !.resp = response, !.count = 0,
            !.rd = [u \in Users |-> EmptyInv], !.wk = [u \in Users |-> EmptyInv]]

Busy(p) == req[p].kind # "idle" /\ req[p].pc # "done"

(* ------------------------------------------------------- store primitives *)

\* conditionalPut sent without its ConditionExpression
conditionalPutUnconditioned(stored, expectedVersion) == TRUE

\* db.conditionalPut: "not exists" without an expected version, else "version equals"
conditionalPut(stored, expectedVersion) ==
  IF expectedVersion = Undefined
  THEN ~stored.exists
  ELSE stored.exists /\ stored.version = expectedVersion

\* an Update conditioned on the row existing only, not on its version
versionEqualsUnchecked(stored, expectedVersion) == stored.exists

\* condition '#version = :expectedVersion' of an Update in a transaction
versionEquals(stored, expectedVersion) == stored.exists /\ stored.version = expectedVersion

\* condition 'attribute_not_exists(pk)' of a Put in a transaction
attributeNotExists(stored) == ~stored.exists

\* a Delete that carries no condition
attributeExistsAlways(stored) == TRUE

\* condition 'attribute_exists(pk)' of a Delete in a transaction
attributeExists(stored) == stored.exists

\* a retry loop that never takes an attempt for the last one
lastAttemptNever(attempt) == FALSE

\* withRetry / the MAX_RETRIES loops: after a conflict on this attempt, is there another one
lastAttempt(attempt) == attempt = MAX_RETRIES - 1

\* baseDelayMs of the retry loop of each handler
baseDelayMs(kind) == IF kind \in {"buy", "transfer"} THEN 100 ELSE 50

\* setTimeout(resolve, baseDelayMs * (attempt + 1))
retryDelay(kind, attempt) == baseDelayMs(kind) * (attempt + 1)

\* a loop that goes back to reading after every conflict, the last attempt's included
RetryUnbounded(r, backTo, msg) ==
  [r EXCEPT !.attempt = r.attempt + 1, !.pc = backTo,
            !.slept = retryDelay(r.kind, r.attempt), !.count = 0,
            !.rd = [u \in Users |-> EmptyInv], !.wk = [u \in Users |-> EmptyInv],
            !.listing = NoRow, !.rapItem = NoRow]

\* a conflict: the Conflict response on the last attempt, else the delay and the next
\* attempt from backTo
Retry(r, backTo, msg) ==
  IF lastAttempt(r.attempt)
  THEN Respond(r, buildResponse(409, msg))
  ELSE [r EXCEPT !.attempt = r.attempt + 1, !.pc = backTo,
                 !.slept = retryDelay(r.kind, r.attempt), !.count = 0,
                 !.rd = [u \in Users |-> EmptyInv], !.wk = [u \in Users |-> EmptyInv],
                 !.listing = NoRow, !.rapItem = NoRow]

\* the errors a store call raises: the cancelled transaction, and the others
TransactionCanceled == "TransactionCanceledException"
StoreErrors == {"ProvisionedThroughputExceededException", "InternalServerError"}

\* a catch block that takes every error for a transaction conflict
isTransactionConflictAlways(errorName) == TRUE

\* error instanceof Error && error.name === 'TransactionCanceledException'
isTransactionConflict(errorName) == errorName = TransactionCanceled

\* the catch block of withRetry and of the retry loops of buy and unlist
catchError(r, errorName, backTo, msg) ==
  LET caught == [r EXCEPT !.raised = errorName]
  IN IF isTransactionConflict(errorName)
     THEN Retry(caught, backTo, msg)
     ELSE Respond(caught, buildResponse(500, "operation failed"))

(* -------------------------------------------------------------- the cache *)

\* TTL of utils/cache, in milliseconds
TTL == [RAP |-> 30000, HISTORY |-> 300000, ACTIVE_SELLERS |-> 10000, LISTINGS_INDEX |-> 5000]

\* the keys of the cache: `listings:${type}:${name}`, `rap:${type}:${name}`,
\* 'marketplace:history' and `seller:${id}`
CacheKey(ns, type, name) == [ns |-> ns, type |-> type, name |-> name]
listingsKey(item) == CacheKey("listings", item[1], item[2])
rapKey(item) == CacheKey("rap", item[1], item[2])
historyKey == CacheKey("marketplace:history", "", "")
sellerKey(id) == CacheKey("seller", "", id)
CacheKeys ==
  {listingsKey(i) : i \in Items} \cup {rapKey(i) : i \in Items} \cup {historyKey}
    \cup {sellerKey(u) : u \in Users}

\* no entry under a key.  undef says that the cached data is the value undefined;
\* asOf is not part of the program: the rows of the item index when the entry was set
NoEntry == [exists |-> FALSE, undef |-> TRUE, data |-> <<>>, expiresAt |-> 0, asOf |-> 0]

\* get(key): the entry is served while Date.now() <= expiresAt
unexpired(entry) == entry.exists /\ ~(now > entry.expiresAt)

\* get(key) !== undefined
hit(entries, key) == unexpired(entries[key]) /\ ~entries[key].undef

\* what get(key) leaves in the Map: an expired entry is deleted
get(entries, key) ==
  IF entries[key].exists /\ now > entries[key].expiresAt
  THEN [entries EXCEPT ![key] = NoEntry]
  ELSE entries

\* set(key, data, ttlMs)
set(entries, key, data, undef, ttlMs) ==
  [entries EXCEPT ![key] =
     [exists |-> TRUE, undef |-> undef, data |-> data, expiresAt |-> now + ttlMs,
      asOf |-> Cardinality(itemListings)]]

\* del(key)
del(entries, key) == [entries EXCEPT ![key] = NoEntry]

(* ------------------------------------------- POST /user/inventory/modify *)

AddCard(c) == [action |-> "addCard", card |-> c, pack |-> "", qty |-> 0]
RemoveCard(c) == [action |-> "removeCard", card |-> c, pack |-> "", qty |-> 0]
AddPack(n, q) == [action |-> "addPack", card |-> "", pack |-> n, qty |-> q]
RemovePack(n, q) == [action |-> "removePack", card |-> "", pack |-> n, qty |-> q]
\* level is Undefined when the body names none
SetCardLevel(c, level) ==
  [action |-> "setCardLevel", card |-> c, pack |-> "", qty |-> 0, level |-> level]

\* one operation of the switch, on the in-memory inventory
ApplyOp(inventory, op) ==
  CASE op.action = "addCard" ->
         IF op.card = ""
         THEN [ok |-> FALSE, inv |-> inventory,
               resp |-> buildResponse(400, "addCard requires card with cardId and cardName")]
         ELSE [ok |-> TRUE, inv |-> [inventory EXCEPT !.cards = Append(@, op.card)],
               resp |-> NoResp]
    [] op.action = "removeCard" ->
         IF op.card = ""
         THEN [ok |-> FALSE, inv |-> inventory,
               resp |-> buildResponse(400, "removeCard requires cardId")]
         ELSE IF findIndex(inventory.cards, op.card) = 0
         THEN [ok |-> FALSE, inv |-> inventory, resp |-> buildResponse(404, "card not found")]
         ELSE [ok |-> TRUE,
               inv |-> [inventory EXCEPT !.cards = splice(@, findIndex(inventory.cards, op.card))],
               resp |-> NoResp]
    [] op.action = "setCardLevel" ->
         \* the level of a card is not part of the state: a level that is set leaves the
         \* inventory of the model as it is
         IF op.card = "" \/ op.level = Undefined
         THEN [ok |-> FALSE, inv |-> inventory,
               resp |-> buildResponse(400, "setCardLevel requires cardId and level")]
         ELSE IF op.level < 1
         THEN [ok |-> FALSE, inv |-> inventory,
               resp |-> buildResponse(400, "level must be a positive integer")]
         ELSE IF findIndex(inventory.cards, op.card) = 0
         THEN [ok |-> FALSE, inv |-> inventory, resp |-> buildResponse(404, "card not found")]
         ELSE [ok |-> TRUE, inv |-> inventory, resp |-> NoResp]
    [] op.action = "addPack" ->
         IF op.pack = ""
         THEN [ok |-> FALSE, inv |-> inventory,
               resp |-> buildResponse(400, "addPack requires packName")]
         ELSE [ok |-> TRUE,
               inv |-> [inventory EXCEPT
                          !.packs[op.pack] = @ + (IF op.qty = 0 THEN 1 ELSE op.qty)],
               resp |-> NoResp]
    [] op.action = "removePack" ->
         LET quantity == IF op.qty = 0 THEN 1 ELSE op.qty
         IN IF op.pack = ""
            THEN [ok |-> FALSE, inv |-> inventory,
                  resp |-> buildResponse(400, "removePack requires packName")]
            ELSE IF inventory.packs[op.pack] < quantity
            THEN [ok |-> FALSE, inv |-> inventory, resp |-> buildResponse(400, "insufficient packs")]
            ELSE [ok |-> TRUE, inv |-> [inventory EXCEPT !.packs[op.pack] = @ - quantity],
                  resp |-> NoResp]
    [] OTHER -> [ok |-> FALSE, inv |-> inventory, resp |-> buildResponse(400, "unknown action")]

\* for (const operation of operations): stops at the first failure
RECURSIVE ApplyOps(_, _)
ApplyOps(inventory, ops) ==
  IF ops = <<>>
  THEN [ok |-> TRUE, inv |-> inventory, resp |-> NoResp]
  ELSE LET one == ApplyOp(inventory, Head(ops))
       IN IF one.ok THEN ApplyOps(one.inv, Tail(ops)) ELSE one

\* the version the conditionalPut of modify is conditioned on
modifyExpected(inventory) == IF inventory.version = 0 THEN Undefined ELSE inventory.version

\* the version a commit writes
nextVersion(readVersion) == readVersion + 1

CanStart(p) == ~Busy(p)

StartModify(p, u, ops) ==
  /\ CanStart(p)
  /\ \A i \in 1..Len(ops) : ops[i].action = "addCard" => ops[i].card \notin minted
  /\ \A i, j \in 1..Len(ops) :
       (i # j /\ ops[i].action = "addCard" /\ ops[j].action = "addCard") => ops[i].card # ops[j].card
  /\ minted' = minted \cup {ops[i].card : i \in {j \in 1..Len(ops) : ops[j].action = "addCard"}}
  /\ started' = started + 1
  /\ req' = [req EXCEPT ![p] =
       IF ops = <<>>
       THEN Respond([Idle EXCEPT !.kind = "modify", !.user = u],
                    buildResponse(400, "at least one operation is required"))
       ELSE [Idle EXCEPT !.kind = "modify", !.pc = "mod_read", !.user = u, !.ops = ops]]
  /\ UNCHANGED <<store, nextListing, live, ledger, keyCommits, side, cache, rapFold>>

\* a loop that saves the inventory as far as the operations got when one of them fails
ModifyReadSavesPartial(p) ==
  LET r == req[p]
      inventory == parseInventoryItem(inv[r.user])
      res == ApplyOps(inventory, r.ops)
  IN /\ r.kind = "modify" /\ r.pc = "mod_read"
     /\ req' = [req EXCEPT ![p] =
          IF res.ok
          THEN [r EXCEPT !.pc = "mod_put", !.rd[r.user] = inventory, !.wk[r.user] = res.inv]
          ELSE Respond(r, res.resp)]
     /\ inv' = IF res.ok THEN inv
               ELSE [inv EXCEPT ![r.user] = [exists |-> TRUE, cards |-> res.inv.cards,
                                             packs |-> res.inv.packs,
                                             version |-> nextVersion(inventory.version)]]
     /\ UNCHANGED <<market, idem, nextListing, started, live, minted, ledger, keyCommits, side,
                    cache, rapFold>>

\* db.get, parseInventoryItem and the loop over the operations
ModifyRead(p) ==
  LET r == req[p]
      inventory == parseInventoryItem(inv[r.user])
      res == ApplyOps(inventory, r.ops)
  IN /\ r.kind = "modify" /\ r.pc = "mod_read"
     /\ req' = [req EXCEPT ![p] =
          IF res.ok
          THEN [r EXCEPT !.pc = "mod_put", !.rd[r.user] = inventory, !.wk[r.user] = res.inv]
          ELSE Respond(r, res.resp)]
     /\ UNCHANGED <<store, nextListing, started, live, minted, ledger, keyCommits, side, cache, rapFold>>

\* db.conditionalPut and what follows it
ModifyPut(p) ==
  LET r == req[p]
      u == r.user
      newVersion == nextVersion(r.rd[u].version)
  IN /\ r.kind = "modify" /\ r.pc = "mod_put"
     /\ IF conditionalPut(inv[u], modifyExpected(r.rd[u]))
        THEN /\ inv' = [inv EXCEPT ![u] = [exists |-> TRUE, cards |-> r.wk[u].cards,
                                           packs |-> r.wk[u].packs, version |-> newVersion]]
             /\ live' = (live \ CardSet(r.rd[u].cards)) \cup CardSet(r.wk[u].cards)
             /\ ledger' = [ledger EXCEPT ![u] =
                  [n \in PackNames |-> @[n] + r.wk[u].packs[n] - r.rd[u].packs[n]]]
             /\ req' = [req EXCEPT ![p] =
                  Respond(r, buildResponse(200, "inventory updated"))]
        ELSE /\ req' = [req EXCEPT ![p] = Retry(r, "mod_read", "inventory was modified")]
             /\ UNCHANGED <<inv, live, ledger>>
     /\ UNCHANGED <<market, idem, nextListing, started, minted, keyCommits, side, cache, rapFold>>


(* -------------------------------------------------- POST /marketplace/list *)

\* db.query(`USER_LISTINGS#${userId}`).items.length
listingCount(u) == Cardinality({row \in userListings : row[1] = u})

StartList(p, u, type, card, pack, cost) ==
  /\ CanStart(p)
  /\ started' = started + 1
  /\ req' = [req EXCEPT ![p] =
       IF cost < 1
       THEN Respond([Idle EXCEPT !.kind = "list", !.user = u, !.type = type],
                    buildResponse(400, "cost must be a positive integer"))
       ELSE [Idle EXCEPT !.kind = "list", !.pc = "list_read", !.user = u, !.type = type,
                         !.card = card, !.pack = pack, !.cost = cost]]
  /\ UNCHANGED <<store, nextListing, live, minted, ledger, keyCommits, side, cache, rapFold>>

\* the checks that follow Promise.all([db.query(USER_LISTINGS), db.get(INVENTORY)]), on
\* the count and the inventory row the two calls returned
listChecks(r) ==
  LET u == r.user
      inventoryItem == r.rd[u]
      inventory == parseInventoryItem(inventoryItem)
      cardIndex == findIndex(inventory.cards, r.card)
      checked == [r EXCEPT !.count = 0, !.rd[u] = inventory]
  IN IF ~inventoryItem.exists THEN Respond(r, buildResponse(404, "user inventory not found"))
     ELSE IF r.count >= MAX_LISTINGS
     THEN Respond(r, buildResponse(400, "maximum of listings reached"))
     ELSE IF r.type = "card"
     THEN IF cardIndex = 0
          THEN Respond(r, buildResponse(404, "card not found in user inventory"))
          ELSE [checked EXCEPT !.pc = "list_check",
                               !.wk[u] = [inventory EXCEPT !.cards = splice(@, cardIndex)]]
     ELSE IF inventory.packs[r.pack] < 1
          THEN Respond(r, buildResponse(404, "pack not found in user inventory"))
          ELSE [checked EXCEPT !.pc = "list_commit",
                               !.wk[u] = [inventory EXCEPT !.packs[r.pack] = @ - 1]]

\* cacheDelete(`listings:pack:${packName}`), called once the pack operations are built
listCacheDelete(entries, checked) ==
  IF checked.type = "pack" /\ checked.pc = "list_commit"
  THEN del(entries, listingsKey(<<"pack", checked.pack>>))
  ELSE entries

\* db.query(`USER_LISTINGS#${userId}`), one of the two calls of the Promise.all: it is
\* served before or after the db.get of the inventory
ListQueryListings(p) ==
  LET r == req[p]
      queried == [r EXCEPT !.count = listingCount(r.user)]
  IN /\ r.kind = "list" /\ r.pc \in {"list_read", "list_got_inv"}
     /\ req' = [req EXCEPT ![p] =
          IF r.pc = "list_read"
          THEN [queried EXCEPT !.pc = "list_got_count"]
          ELSE listChecks(queried)]
     /\ cache' = [cache EXCEPT ![host[p]] = listCacheDelete(@, req'[p])]
     /\ UNCHANGED <<store, nextListing, started, live, minted, ledger, keyCommits, side, rapFold>>

\* db.get(`USER#${userId}`, 'INVENTORY'), the other call of the Promise.all
ListRead(p) ==
  LET r == req[p]
      got == [r EXCEPT !.rd[r.user] = inv[r.user]]
  IN /\ r.kind = "list" /\ r.pc \in {"list_read", "list_got_count"}
     /\ req' = [req EXCEPT ![p] =
          IF r.pc = "list_read"
          THEN [got EXCEPT !.pc = "list_got_inv"]
          ELSE listChecks(got)]
     /\ cache' = [cache EXCEPT ![host[p]] = listCacheDelete(@, req'[p])]
     /\ UNCHANGED <<store, nextListing, started, live, minted, ledger, keyCommits, side, rapFold>>

\* db.get(`LISTING#CARD#${cardId}`): the card is already listed; if it is not, the
\* operations are built and cacheDelete(`listings:card:${card.cardName}`) is called
ListCheckExisting(p) ==
  LET r == req[p]
  IN /\ r.kind = "list" /\ r.pc = "list_check"
     /\ req' = [req EXCEPT ![p] =
          IF cardListing[r.card].exists
          THEN Respond(r, buildResponse(409, "this card is already listed"))
          ELSE [r EXCEPT !.pc = "list_commit"]]
     /\ cache' = [cache EXCEPT ![host[p]] =
          IF cardListing[r.card].exists
          THEN @
          ELSE del(@, listingsKey(<<"card", cardName(r.card)>>))]
     /\ UNCHANGED <<store, nextListing, started, live, minted, ledger, keyCommits, side, rapFold>>

\* a list transaction that writes the cards as they were read, the listed card included
listInventoryUpdateKeepsCard(r) ==
  [exists |-> TRUE, cards |-> r.rd[r.user].cards, packs |-> r.wk[r.user].packs,
   version |-> r.rd[r.user].version + 1]

\* the inventory Update of a list transaction: the seller's row as it is written
listInventoryUpdate(r) ==
  [exists |-> TRUE, cards |-> r.wk[r.user].cards, packs |-> r.wk[r.user].packs,
   version |-> nextVersion(r.rd[r.user].version)]

\* item: { ...listing } of the ITEM_LISTINGS row
itemListing(r, id) ==
  [type |-> r.type, id |-> id,
   name |-> IF r.type = "card" THEN cardName(r.card) ELSE r.pack,
   sellerId |-> r.user, cost |-> r.cost]

\* the conditions of the list transaction
listConditions(r) ==
  /\ versionEquals(inv[r.user], r.rd[r.user].version)
  /\ r.type = "card" =>
       /\ attributeNotExists(cardListing[r.card])
       /\ <<r.user, "card", r.card>> \notin userListings

\* db.transactWrite(operations) of list
ListCommit(p) ==
  LET r == req[p]
      u == r.user
      listingId == nextListing
  IN /\ r.kind = "list" /\ r.pc = "list_commit"
     /\ IF listConditions(r)
        THEN /\ inv' = [inv EXCEPT ![u] = listInventoryUpdate(r)]
             /\ IF r.type = "card"
                THEN /\ cardListing' = [cardListing EXCEPT ![r.card] =
                          [exists |-> TRUE, sellerId |-> u, cost |-> r.cost]]
                     /\ userListings' = userListings \cup {<<u, "card", r.card>>}
                     /\ itemListings' = itemListings \cup {<<"card", r.card>>}
                     /\ itemAttrs' = (<<"card", r.card>> :> itemListing(r, r.card)) @@ itemAttrs
                     /\ UNCHANGED <<packListing, nextListing>>
                ELSE /\ packListing' = [packListing EXCEPT ![listingId] =
                          [exists |-> TRUE, packName |-> r.pack, sellerId |-> u, cost |-> r.cost]]
                     /\ userListings' = userListings \cup {<<u, "pack", listingId>>}
                     /\ itemListings' = itemListings \cup {<<"pack", listingId>>}
                     /\ itemAttrs' = (<<"pack", listingId>> :> itemListing(r, listingId)) @@ itemAttrs
                     /\ nextListing' = nextListing + 1
                     /\ UNCHANGED cardListing
             /\ ledger' = [ledger EXCEPT ![u] =
                  [n \in PackNames |-> @[n] + r.wk[u].packs[n] - r.rd[u].packs[n]]]
             /\ req' = [req EXCEPT ![p] =
                  Respond([r EXCEPT !.lid = IF r.type = "pack" THEN listingId ELSE 0],
                          buildResponse(200, "listed"))]
        ELSE /\ req' = [req EXCEPT ![p] = catchError(r, TransactionCanceled, "list_read", "failed to list item")]
             /\ UNCHANGED <<inv, cardListing, packListing, userListings, itemListings,
                            itemAttrs, nextListing, ledger>>
     /\ UNCHANGED <<rap, rapRegistry, idem, started, live, minted, keyCommits, side, cache, rapFold>>

(* ------------------------------------------------ POST /marketplace/unlist *)

StartUnlist(p, u, type, card, lid) ==
  /\ CanStart(p)
  /\ started' = started + 1
  /\ req' = [req EXCEPT ![p] =
       [Idle EXCEPT !.kind = "unlist", !.pc = "unlist_read", !.user = u, !.type = type,
                    !.card = card, !.lid = lid]]
  /\ UNCHANGED <<store, nextListing, live, minted, ledger, keyCommits, side, cache, rapFold>>

\* a transaction that leaves the seller-index row in place
deleteUserListingSkipped(rows, sellerId, type, id) == rows

\* { type: 'Delete', pk: `USER_LISTINGS#${sellerId}`, sk: `CARD#${cardId}` | `PACK#${listingId}` }
deleteUserListing(rows, sellerId, type, id) == rows \ {<<sellerId, type, id>>}

\* the listing row an unlist or a buy request is about
listingRow(r) == IF r.type = "card" THEN cardListing[r.card] ELSE packListing[r.lid]

\* an ownership check that lets every caller through
ownsListingAnyone(listingItem, userId) == TRUE

\* listingItem.sellerId !== userId is Forbidden
ownsListing(listingItem, userId) == listingItem.sellerId = userId

\* db.get of the listing row and the ownership check
UnlistRead(p) ==
  LET r == req[p]
      listingItem == listingRow(r)
  IN /\ r.kind = "unlist" /\ r.pc = "unlist_read"
     /\ req' = [req EXCEPT ![p] =
          IF ~listingItem.exists THEN Respond(r, buildResponse(404, "listing not found"))
          ELSE IF ~ownsListing(listingItem, r.user)
          THEN Respond(r, buildResponse(403, "you can only unlist your own items"))
          ELSE [r EXCEPT !.listing = listingItem,
                         !.pc = IF r.type = "card" THEN "unlist_commit" ELSE "unlist_inv"]]
     /\ UNCHANGED <<store, nextListing, started, live, minted, ledger, keyCommits, side, cache, rapFold>>

\* pack branch: db.get of the seller's inventory, "Return pack to inventory"
UnlistReadInventory(p) ==
  LET r == req[p]
      u == r.user
      inventoryItem == inv[u]
      packName == r.listing.packName
  IN /\ r.kind = "unlist" /\ r.pc = "unlist_inv"
     /\ req' = [req EXCEPT ![p] =
          [r EXCEPT !.pc = "unlist_commit", !.rd[u] = inventoryItem,
                    !.wk[u] = IF inventoryItem.exists
                              THEN [inventoryItem EXCEPT !.packs[packName] = @ + 1,
                                                         !.version = nextVersion(@)]
                              ELSE [exists |-> TRUE, cards |-> <<>>,
                                    packs |-> [n \in PackNames |-> IF n = packName THEN 1 ELSE 0],
                                    version |-> 1]]]
     /\ UNCHANGED <<store, nextListing, started, live, minted, ledger, keyCommits, side, cache, rapFold>>

\* the inventory row a card unlist writes: the card branch pushes no inventory operation
unlistCardInventory(r, stored) == stored

\* the conditions of the unlist transaction
unlistConditions(r) ==
  /\ attributeExists(listingRow(r))
  /\ r.type = "pack" =>
       IF r.rd[r.user].exists
       THEN versionEquals(inv[r.user], r.rd[r.user].version)
       ELSE attributeNotExists(inv[r.user])

\* db.transactWrite(operations) of unlist
UnlistCommit(p) ==
  LET r == req[p]
      u == r.user
  IN /\ r.kind = "unlist" /\ r.pc = "unlist_commit"
     /\ IF unlistConditions(r)
        THEN /\ IF r.type = "card"
                THEN /\ cardListing' = [cardListing EXCEPT ![r.card] = NoRow]
                     /\ userListings' = deleteUserListing(userListings, u, "card", r.card)
                     /\ inv' = [inv EXCEPT ![u] = unlistCardInventory(r, @)]
                     /\ UNCHANGED <<packListing, ledger>>
                ELSE /\ packListing' = [packListing EXCEPT ![r.lid] = NoRow]
                     /\ userListings' = deleteUserListing(userListings, u, "pack", r.lid)
                     /\ inv' = [inv EXCEPT ![u] = r.wk[u]]
                     /\ ledger' = [ledger EXCEPT ![u][r.listing.packName] = @ + 1]
                     /\ UNCHANGED cardListing
             /\ req' = [req EXCEPT ![p] =
                  Respond(r, buildResponse(200, "unlisted"))]
        ELSE /\ req' = [req EXCEPT ![p] =
                  catchError(r, TransactionCanceled, "unlist_read", "listing was modified")]
             /\ UNCHANGED <<inv, cardListing, packListing, userListings, ledger>>
     /\ UNCHANGED <<itemListings, itemAttrs, rap, rapRegistry, idem, nextListing, started, live, minted,
                    keyCommits, side, cache, rapFold>>


(* --------------------------------------------------- POST /marketplace/buy *)

\* RAP values are kept in hundredths
RapScale == 100

\* a rolling average that forgets the prior value: the last sale price
calculateNewRapLastSale(rapItem, salePrice) == salePrice * RapScale

\* calculateNewRap(currentRap, salePrice), currentRap a RAP row or no row
calculateNewRap(rapItem, salePrice) ==
  IF ~rapItem.exists
  THEN salePrice * RapScale
  ELSE rapItem.rap + ((salePrice * RapScale - rapItem.rap) \div 10)

StartBuy(p, buyerId, type, card, lid, expectedCost) ==
  /\ CanStart(p)
  /\ started' = started + 1
  /\ req' = [req EXCEPT ![p] =
       [Idle EXCEPT !.kind = "buy", !.pc = "buy_read", !.user = buyerId, !.type = type,
                    !.card = card, !.lid = lid, !.cost = expectedCost]]
  /\ UNCHANGED <<store, nextListing, live, minted, ledger, keyCommits, side, cache, rapFold>>

\* db.get of the listing row, the price check and the self-purchase check
BuyReadListing(p) ==
  LET r == req[p]
      listing == listingRow(r)
  IN /\ r.kind = "buy" /\ r.pc = "buy_read"
     /\ req' = [req EXCEPT ![p] =
          IF ~listing.exists
          THEN Respond(r, buildResponse(404, "listing not found or already sold"))
          ELSE IF r.type = "card" /\ listing.cost # r.cost
          THEN Respond([r EXCEPT !.listing = listing], buildResponse(409, "price changed"))
          ELSE IF listing.sellerId = r.user
          THEN Respond([r EXCEPT !.listing = listing],
                       buildResponse(400, "cannot buy your own listing"))
          ELSE IF listing.cost # r.cost
          THEN Respond([r EXCEPT !.listing = listing], buildResponse(409, "price changed"))
          ELSE [r EXCEPT !.pc = "buy_inv", !.listing = listing]]
     /\ UNCHANGED <<store, nextListing, started, live, minted, ledger, keyCommits, side, cache, rapFold>>

\* the item whose RAP a sale of this listing updates
soldItem(r) ==
  IF r.type = "card" THEN <<"card", cardName(r.card)>> ELSE <<"pack", r.listing.packName>>

\* is the listed card in the seller's inventory: sellerCards.findIndex(...) !== -1
sellerHolds(sellerCards, cardId) == findIndex(sellerCards, cardId) # 0

\* a purchase that leaves the buyer's packs as they were read
updatedBuyerPacksUnchanged(buyerPacks, packName) == buyerPacks

\* { ...buyerPacks, [listing.packName]: (buyerPacks[listing.packName] || 0) + 1 }
updatedBuyerPacks(buyerPacks, packName) == [buyerPacks EXCEPT ![packName] = @ + 1]

\* Promise.all of the inventory reads and the RAP read, and what is computed from them
BuyReadInventories(p) ==
  LET r == req[p]
      b == r.user
      s == r.listing.sellerId
      sellerItem == inv[s]
      buyerItem == inv[b]
      rapItem == rap[soldItem(r)]
      cardIndex == findIndex(sellerItem.cards, r.card)
      packName == r.listing.packName
  IN /\ r.kind = "buy" /\ r.pc = "buy_inv"
     /\ req' = [req EXCEPT ![p] =
          IF r.type = "card"
          THEN IF ~sellerItem.exists
               THEN Respond(r, buildResponse(404, "seller inventory not found"))
               ELSE IF ~sellerHolds(sellerItem.cards, r.card)
               THEN [r EXCEPT !.pc = "buy_cleanup"]
               ELSE [r EXCEPT !.pc = "buy_commit", !.rapItem = rapItem,
                              !.rd[s] = sellerItem, !.rd[b] = buyerItem,
                              !.wk[s] = [sellerItem EXCEPT !.cards = splice(@, cardIndex),
                                                           !.version = nextVersion(@)],
                              !.wk[b] = IF buyerItem.exists
                                        THEN [buyerItem EXCEPT !.cards = Append(@, r.card),
                                                               !.version = nextVersion(@)]
                                        ELSE [exists |-> TRUE, cards |-> <<r.card>>,
                                              packs |-> [n \in PackNames |-> 0], version |-> 1]]
          ELSE [r EXCEPT !.pc = "buy_commit", !.rapItem = rapItem, !.rd[b] = buyerItem,
                         !.wk[b] = IF buyerItem.exists
                                   THEN [buyerItem EXCEPT
                                           !.packs = updatedBuyerPacks(@, packName),
                                           !.version = nextVersion(@)]
                                   ELSE [exists |-> TRUE, cards |-> <<>>,
                                         packs |-> updatedBuyerPacks(EmptyInv.packs, packName),
                                         version |-> 1]]]
     /\ UNCHANGED <<store, nextListing, started, live, minted, ledger, keyCommits, side, cache, rapFold>>

\* a cleanup that deletes the listing row and leaves the seller-index row
BuyCleanupKeepsIndex(p) ==
  LET r == req[p]
  IN /\ r.kind = "buy" /\ r.pc = "buy_cleanup"
     /\ cardListing' = [cardListing EXCEPT ![r.card] = NoRow]
     /\ req' = [req EXCEPT ![p] =
          Respond(r, buildResponse(410, "card no longer exists in seller inventory"))]
     /\ UNCHANGED <<inv, packListing, userListings, itemListings, itemAttrs, rap, rapRegistry,
                    idem, nextListing, started, live, minted, ledger, keyCommits, side, cache,
                    rapFold>>

\* cleanupCardListing: two unconditioned deletes, then Gone
BuyCleanup(p) ==
  LET r == req[p]
  IN /\ r.kind = "buy" /\ r.pc = "buy_cleanup"
     /\ cardListing' = [cardListing EXCEPT ![r.card] = NoRow]
     /\ userListings' = deleteUserListing(userListings, r.listing.sellerId, "card", r.card)
     /\ req' = [req EXCEPT ![p] =
          Respond(r, buildResponse(410, "card no longer exists in seller inventory"))]
     /\ UNCHANGED <<inv, packListing, itemListings, itemAttrs, rap, rapRegistry, idem, nextListing,
                    started, live, minted, ledger, keyCommits, side, cache, rapFold>>

\* the RAP operation of a purchase: Update of rap and lastUpdated when a row was read,
\* else Put of a row that holds these two attributes only
rapWrite(stored, rapItem, newRap) ==
  IF rapItem.exists
  THEN IF stored.exists
       THEN [stored EXCEPT !.rap = newRap, !.lastUpdated = now]
       ELSE [exists |-> TRUE, rap |-> newRap, lastUpdated |-> now, lastSnapshotDate |-> Undefined]
  ELSE [exists |-> TRUE, rap |-> newRap, lastUpdated |-> now, lastSnapshotDate |-> Undefined]

\* an inventory write without a condition
inventoryConditionNone(stored, read) == TRUE

\* the condition of an inventory write: version as read, or no row when none was read
inventoryCondition(stored, read) ==
  IF read.exists THEN versionEquals(stored, read.version) ELSE attributeNotExists(stored)

\* a purchase transaction whose registry Put carries no condition
buyConditionsNoRegistry(r) ==
  /\ attributeExists(listingRow(r))
  /\ r.type = "card" => versionEquals(inv[r.listing.sellerId], r.rd[r.listing.sellerId].version)
  /\ inventoryCondition(inv[r.user], r.rd[r.user])

\* the conditions of the purchase transaction
buyConditions(r) ==
  /\ attributeExists(listingRow(r))
  /\ r.type = "card" => versionEquals(inv[r.listing.sellerId], r.rd[r.listing.sellerId].version)
  /\ inventoryCondition(inv[r.user], r.rd[r.user])
  /\ ~r.rapItem.exists => soldItem(r) \notin rapRegistry

\* db.transactWrite(operations) of a purchase
BuyCommit(p) ==
  LET r == req[p]
      b == r.user
      s == r.listing.sellerId
      newRap == calculateNewRap(r.rapItem, r.listing.cost)
  IN /\ r.kind = "buy" /\ r.pc = "buy_commit"
     /\ IF buyConditions(r)
        THEN /\ IF r.type = "card"
                THEN /\ cardListing' = [cardListing EXCEPT ![r.card] = NoRow]
                     /\ userListings' = deleteUserListing(userListings, s, "card", r.card)
                     /\ inv' = [inv EXCEPT ![s] = r.wk[s], ![b] = r.wk[b]]
                     /\ UNCHANGED <<packListing, ledger>>
                ELSE /\ packListing' = [packListing EXCEPT ![r.lid] = NoRow]
                     /\ userListings' = deleteUserListing(userListings, s, "pack", r.lid)
                     /\ inv' = [inv EXCEPT ![b] = r.wk[b]]
                     /\ ledger' = [ledger EXCEPT ![b][r.listing.packName] = @ + 1]
                     /\ UNCHANGED cardListing
             /\ rap' = [rap EXCEPT ![soldItem(r)] = rapWrite(@, r.rapItem, newRap)]
             /\ rapRegistry' = IF r.rapItem.exists THEN rapRegistry
                                ELSE rapRegistry \cup {soldItem(r)}
             /\ rapFold' = [rapFold EXCEPT ![soldItem(r)] =
                  [exists |-> TRUE, rap |-> calculateNewRap(@, r.listing.cost)]]
             /\ req' = [req EXCEPT ![p] = Respond(r, buildResponse(200, "purchase successful"))]
        ELSE /\ req' = [req EXCEPT ![p] = catchError(r, TransactionCanceled, "buy_read", "purchase failed")]
             /\ UNCHANGED <<inv, cardListing, packListing, userListings, rap, rapRegistry, ledger,
                            rapFold>>
     /\ UNCHANGED <<itemListings, itemAttrs, idem, nextListing, started, live, minted, keyCommits,
                    side, cache>>


(* --------------------------------------------------------- POST /transfer *)

Leg(from, to, cards, packs) == [fromUserId |-> from, toUserId |-> to, cards |-> cards, packs |-> packs]
PackMove(n, q) == [packName |-> n, quantity |-> q]

\* uniqueUserIds
uniqueUserIds(legs) ==
  {legs[i].fromUserId : i \in 1..Len(legs)} \cup {legs[i].toUserId : i \in 1..Len(legs)}

\* db.put(item): a PutCommand built from the item alone.  The 'condition' key of the
\* item is stored as an attribute; no ConditionExpression is sent, so the put never fails.
dbPut(stored, item) == [ok |-> TRUE, row |-> item]

\* the request-shape checks that follow the marker: 0 when the body is valid
validateTransfers(legs) ==
  IF legs = <<>> THEN 400
  ELSE IF \E i \in 1..Len(legs) :
            \/ legs[i].fromUserId = legs[i].toUserId
            \/ (legs[i].cards = <<>> /\ legs[i].packs = <<>>)
  THEN 400
  ELSE 0

\* for (const { cardId } of cards) of one leg
RECURSIVE moveCards(_, _, _)
moveCards(from, to, cards) ==
  IF cards = <<>> THEN [ok |-> TRUE, from |-> from, to |-> to]
  ELSE LET cardIndex == findIndex(from.cards, Head(cards))
       IN IF cardIndex = 0
          THEN [ok |-> FALSE, from |-> from, to |-> to]
          ELSE moveCards([from EXCEPT !.cards = splice(@, cardIndex)],
                         [to EXCEPT !.cards = Append(@, from.cards[cardIndex])],
                         Tail(cards))

\* for (const { packName, quantity } of packs) of one leg
RECURSIVE movePacks(_, _, _)
movePacks(from, to, packs) ==
  IF packs = <<>> THEN [ok |-> TRUE, from |-> from, to |-> to]
  ELSE LET m == Head(packs)
       IN IF from.packs[m.packName] < m.quantity
          THEN [ok |-> FALSE, from |-> from, to |-> to]
          ELSE movePacks([from EXCEPT !.packs[m.packName] = @ - m.quantity],
                         [to EXCEPT !.packs[m.packName] = @ + m.quantity],
                         Tail(packs))

\* legs checked one by one against the inventories as loaded: a later leg does not see
\* what an earlier leg moved
applyLegsOnLoaded(inventories, legs) ==
  IF \E i \in 1..Len(legs) :
       ~moveCards(inventories[legs[i].fromUserId], inventories[legs[i].toUserId],
                  legs[i].cards).ok
  THEN [ok |-> FALSE, invs |-> inventories,
        resp |-> buildResponse(400, "card not found in inventory")]
  ELSE [ok |-> TRUE, invs |-> inventories, resp |-> NoResp]

\* for (const { fromUserId, toUserId, cards, packs } of transfers), on the snapshots
RECURSIVE applyLegs(_, _)
applyLegs(inventories, legs) ==
  IF legs = <<>> THEN [ok |-> TRUE, invs |-> inventories, resp |-> NoResp]
  ELSE LET leg == Head(legs)
           f == leg.fromUserId
           t == leg.toUserId
       IN IF ~inventories[f].exists
          THEN [ok |-> FALSE, invs |-> inventories, resp |-> buildResponse(404, "inventory not found")]
          ELSE LET c == moveCards(inventories[f], inventories[t], leg.cards)
               IN IF ~c.ok
                  THEN [ok |-> FALSE, invs |-> inventories,
                        resp |-> buildResponse(400, "card not found in inventory")]
                  ELSE LET k == movePacks(c.from, c.to, leg.packs)
                       IN IF ~k.ok
                          THEN [ok |-> FALSE, invs |-> inventories,
                                resp |-> buildResponse(400, "insufficient packs")]
                          ELSE applyLegs([inventories EXCEPT ![f] = k.from, ![t] = k.to],
                                         Tail(legs))

Processing == [exists |-> TRUE, status |-> "processing", statusCode |-> 0, response |-> NoResp]
Completed(response) ==
  [exists |-> TRUE, status |-> "completed", statusCode |-> response.statusCode,
   response |-> response]

\* a replay that answers with the stored status code but a body of its own
replayOwnBody(existing) == buildResponse(existing.statusCode, "request already completed")

\* buildResponse(existing.statusCode, existing.response): the stored answer, as stored
replay(existing) == existing.response

StartTransfer(p, key, legs) ==
  /\ CanStart(p)
  /\ started' = started + 1
  /\ req' = [req EXCEPT ![p] =
       [Idle EXCEPT !.kind = "transfer", !.pc = "tr_get", !.key = key, !.legs = legs]]
  /\ UNCHANGED <<store, nextListing, live, minted, ledger, keyCommits, side, cache, rapFold>>

\* db.get of the idempotency record: Conflict while processing, replay when completed
TransferGetMarker(p) ==
  LET r == req[p]
      existing == idem[r.key]
  IN /\ r.kind = "transfer" /\ r.pc = "tr_get"
     /\ req' = [req EXCEPT ![p] =
          IF existing.exists
          THEN IF existing.status = "processing"
               THEN Respond(r, buildResponse(409, "this request is already being processed"))
               ELSE Respond(r, replay(existing))
          ELSE [r EXCEPT !.pc = "tr_put"]]
     /\ UNCHANGED <<store, nextListing, started, live, minted, ledger, keyCommits, side, cache, rapFold>>

\* db.put of the processing marker, then the checks of the body
TransferPutMarker(p) ==
  LET r == req[p]
      put == dbPut(idem[r.key], Processing)
      invalid == validateTransfers(r.legs)
  IN /\ r.kind = "transfer" /\ r.pc = "tr_put"
     /\ IF put.ok
        THEN /\ idem' = [idem EXCEPT ![r.key] = put.row]
             /\ req' = [req EXCEPT ![p] =
                  IF invalid # 0
                  THEN [r EXCEPT !.pc = "tr_final", !.wrote = TRUE,
                                 !.resp = buildResponse(invalid, "invalid transfer request")]
                  ELSE [r EXCEPT !.pc = "tr_read", !.wrote = TRUE]]
        ELSE /\ req' = [req EXCEPT ![p] =
                  Respond(r, buildResponse(409, "this request is already being processed"))]
             /\ UNCHANGED idem
     /\ UNCHANGED <<inv, market, nextListing, started, live, minted, ledger, keyCommits, side, cache, rapFold>>

\* a handler that saves the inventories as the legs left them when a leg fails
TransferReadSavesPartial(p) ==
  LET r == req[p]
      uu == uniqueUserIds(r.legs)
      inventories == [u \in Users |-> IF u \in uu THEN parseInventoryItem(inv[u]) ELSE EmptyInv]
      res == applyLegs(inventories, r.legs)
  IN /\ r.kind = "transfer" /\ r.pc = "tr_read"
     /\ req' = [req EXCEPT ![p] =
          IF res.ok
          THEN [r EXCEPT !.pc = "tr_commit", !.rd = inventories,
                         !.wk = [u \in Users |->
                                   IF u \in uu
                                   THEN [res.invs[u] EXCEPT !.version = nextVersion(@)]
                                   ELSE EmptyInv]]
          ELSE [r EXCEPT !.pc = "tr_final", !.resp = res.resp]]
     /\ inv' = IF res.ok THEN inv
               ELSE [u \in Users |->
                       IF u \in uu /\ res.invs[u] # inventories[u]
                       THEN [res.invs[u] EXCEPT !.exists = TRUE, !.version = nextVersion(@)]
                       ELSE inv[u]]
     /\ UNCHANGED <<market, idem, nextListing, started, live, minted, ledger, keyCommits, side,
                    cache, rapFold>>

\* Promise.all of the inventory reads, then the legs applied to the snapshots
TransferRead(p) ==
  LET r == req[p]
      uu == uniqueUserIds(r.legs)
      inventories == [u \in Users |-> IF u \in uu THEN parseInventoryItem(inv[u]) ELSE EmptyInv]
      res == applyLegs(inventories, r.legs)
  IN /\ r.kind = "transfer" /\ r.pc = "tr_read"
     /\ req' = [req EXCEPT ![p] =
          IF res.ok
          THEN [r EXCEPT !.pc = "tr_commit", !.rd = inventories,
                         !.wk = [u \in Users |->
                                   IF u \in uu
                                   THEN [res.invs[u] EXCEPT !.version = nextVersion(@)]
                                   ELSE EmptyInv]]
          ELSE [r EXCEPT !.pc = "tr_final", !.resp = res.resp]]
     /\ UNCHANGED <<store, nextListing, started, live, minted, ledger, keyCommits, side, cache, rapFold>>

\* the conditions of the transfer transaction, one per user of the request
transferConditions(r) ==
  \A u \in uniqueUserIds(r.legs) :
    IF r.rd[u].exists
    THEN versionEquals(inv[u], r.wk[u].version - 1)
    ELSE attributeNotExists(inv[u])

UserOrder == <<"A", "B", "C">>

\* the data of the success response: cards and packs of every user of the request
tradeData(uu, inventories) ==
  LET us == SelectSeq(UserOrder, LAMBDA u : u \in uu)
  IN [i \in 1..Len(us) |->
        [userId |-> us[i], cards |-> inventories[us[i]].cards, packs |-> inventories[us[i]].packs]]

\* what comes out of withRetry when the transaction is cancelled
transferConflict(r) ==
  catchError(r, TransactionCanceled, "tr_read", "trade failed due to concurrent modifications")

\* db.transactWrite(operations) of the transfer
TransferCommit(p) ==
  LET r == req[p]
      uu == uniqueUserIds(r.legs)
  IN /\ r.kind = "transfer" /\ r.pc = "tr_commit"
     /\ IF transferConditions(r)
        THEN /\ inv' = [u \in Users |->
                          IF u \in uu THEN [r.wk[u] EXCEPT !.exists = TRUE] ELSE inv[u]]
             /\ ledger' = [u \in Users |-> [n \in PackNames |->
                             ledger[u][n] + r.wk[u].packs[n] - r.rd[u].packs[n]]]
             /\ keyCommits' = [keyCommits EXCEPT ![r.key] = @ + 1]
             /\ req' = [req EXCEPT ![p] =
                  [r EXCEPT !.pc = "tr_final",
                            !.resp = [statusCode |-> 200, msg |-> "trade completed",
                                      data |-> tradeData(uu, r.wk)]]]
        ELSE /\ req' = [req EXCEPT ![p] = transferConflict(r)]
             /\ UNCHANGED <<inv, ledger, keyCommits, side, cache, rapFold>>
     /\ UNCHANGED <<market, idem, nextListing, started, live, minted, side, cache, rapFold>>

\* idempotentResponse: db.update of the record to completed, then the response
TransferFinalize(p) ==
  LET r == req[p]
  IN /\ r.kind = "transfer" /\ r.pc = "tr_final"
     /\ idem' = [idem EXCEPT ![r.key] = Completed(r.resp)]
     /\ req' = [req EXCEPT ![p] = Respond(r, r.resp)]
     /\ UNCHANGED <<inv, market, nextListing, started, live, minted, ledger, keyCommits, side, cache, rapFold>>


(* ------------------------------------------------ GET /marketplace/history *)

\* milliseconds of a day: getDateString keeps the date of an ISO timestamp
MsPerDay == 86400000

\* getDateString(new Date(ms)), dates counted in days from day 0
getDateString(ms) == ms \div MsPerDay

\* a range of dates that starts with startDate itself
getDaysBetweenInclusive(startDate, endDate) ==
  [k \in 1..(endDate - startDate + 1) |-> startDate + k - 1]

\* getDaysBetween(startDate, endDate): the dates after startDate, up to endDate
getDaysBetween(startDate, endDate) == [k \in 1..(endDate - startDate) |-> startDate + k]

\* the handler: cached('marketplace:history', TTL.HISTORY, fetchMarketplaceHistory), up
\* to the first store call of the fetcher
StartHistory(p) ==
  LET entries == cache[host[p]]
      started1 == [Idle EXCEPT !.kind = "history"]
  IN /\ CanStart(p)
     /\ started' = started + 1
     /\ IF hit(entries, historyKey)
        THEN /\ req' = [req EXCEPT ![p] =
                  Respond([started1 EXCEPT !.fromCache = TRUE],
                          success(entries[historyKey].data, ""))]
             /\ UNCHANGED cache
        ELSE /\ req' = [req EXCEPT ![p] = [started1 EXCEPT !.pc = "hist_registry"]]
             /\ cache' = [cache EXCEPT ![host[p]] = get(@, historyKey)]
     /\ UNCHANGED <<store, nextListing, live, minted, ledger, keyCommits, side, rapFold>>

\* the fetcher returns: set(key, data, ttlMs) and the success response
historyDone(p, r, data) ==
  /\ req' = [req EXCEPT ![p] = Respond(r, success(data, ""))]
  /\ cache' = [cache EXCEPT ![host[p]] = set(@, historyKey, data, FALSE, TTL.HISTORY)]

\* the response of fetchMarketplaceHistory: per item, the RAP read and the history built
historyResponse(r) ==
  [i \in {j \in r.registry : r.rapRecords[j].exists} |->
     [rap |-> r.rapRecords[i].rap, history |-> r.hist[i]]]

\* db.query('RAP_REGISTRY')
HistRegistry(p) ==
  LET r == req[p]
  IN /\ r.kind = "history" /\ r.pc = "hist_registry"
     /\ IF rapRegistry = {}
        THEN historyDone(p, r, <<>>)
        ELSE /\ req' = [req EXCEPT ![p] = [r EXCEPT !.pc = "hist_rap", !.registry = rapRegistry]]
             /\ UNCHANGED cache
     /\ UNCHANGED <<store, nextListing, started, live, minted, ledger, keyCommits, side, rapFold>>

\* db.batchGet(rapKeys), then today and the list of history queries
HistBatchGet(p) ==
  LET r == req[p]
      rapRecords == [i \in r.registry |-> rap[i]]
      historyQueries == {i \in r.registry : rapRecords[i].exists}
      got == [r EXCEPT !.rapRecords = rapRecords, !.today = getDateString(now),
                       !.hist = [i \in historyQueries |-> {}]]
  IN /\ r.kind = "history" /\ r.pc = "hist_rap"
     /\ IF historyQueries = {}
        THEN historyDone(p, got, <<>>)
        ELSE /\ req' = [req EXCEPT ![p] =
                  [got EXCEPT !.pc = "hist_query", !.pending = historyQueries]]
             /\ UNCHANGED cache
     /\ UNCHANGED <<store, nextListing, started, live, minted, ledger, keyCommits, side, rapFold>>

\* the dates to snapshot for one item: missingDates without the dates of its history
datesToSnapshot(rapRecord, entries, today) ==
  LET lastSnapshotDate == rapRecord.lastSnapshotDate
      startDate == IF lastSnapshotDate # Undefined
                   THEN lastSnapshotDate
                   ELSE getDateString(rapRecord.lastUpdated)
      missingDates == getDaysBetween(startDate, today)
  IN IF lastSnapshotDate = Undefined \/ lastSnapshotDate # today
     THEN {missingDates[k] : k \in DOMAIN missingDates} \ {h.date : h \in entries}
     ELSE {}

\* the loop over registryItems: snapshotItems, the history of the response and
\* updateOperations
planSnapshots(r) ==
  LET items == DOMAIN r.hist
      dates(i) == datesToSnapshot(r.rapRecords[i], r.hist[i], r.today)
      snapshotItems ==
        {[item |-> i, date |-> d, rap |-> r.rapRecords[i].rap] : i \in items, d \in Days}
      wanted == {x \in snapshotItems : x.date \in dates(x.item)}
      updates == {i \in items : r.rapRecords[i].lastSnapshotDate = Undefined
                                   \/ r.rapRecords[i].lastSnapshotDate # r.today}
  IN [r EXCEPT !.snapshotItems = wanted,
               !.hist = [i \in items |->
                           r.hist[i] \cup {[date |-> x.date, rap |-> x.rap] :
                                             x \in {y \in wanted : y.item = i}}],
               !.putPending = wanted # {},
               !.updates = updates]

\* one of the history queries of the Promise.all: db.query(pk, HISTORY#); after the
\* last of them the snapshots are planned and the two kinds of write are issued
HistQuery(p, i) ==
  LET r == req[p]
      items == {[date |-> d, rap |-> history[i][d].rap] : d \in {e \in Days : history[i][e].exists}}
      queried == [r EXCEPT !.hist[i] = items, !.pending = @ \ {i}]
      planned == planSnapshots(queried)
  IN /\ r.kind = "history" /\ r.pc = "hist_query" /\ i \in r.pending
     /\ IF queried.pending # {}
        THEN /\ req' = [req EXCEPT ![p] = queried]
             /\ UNCHANGED cache
        ELSE IF ~planned.putPending /\ planned.updates = {}
        THEN historyDone(p, planned, historyResponse(planned))
        ELSE /\ req' = [req EXCEPT ![p] = [planned EXCEPT !.pc = "hist_write"]]
             /\ UNCHANGED cache
     /\ UNCHANGED <<store, nextListing, started, live, minted, ledger, keyCommits, side, rapFold>>

\* PutRequest: { Item: item } of a snapshot: the row is replaced
putSnapshot(stored, x) == [exists |-> TRUE, rap |-> x.rap]

\* the rows after db.batchPut(snapshotItems)
batchPut(rows, snapshotItems) ==
  [i \in Items |-> [d \in Days |->
     IF \E x \in snapshotItems : x.item = i /\ x.date = d
     THEN putSnapshot(rows[i][d], CHOOSE x \in snapshotItems : x.item = i /\ x.date = d)
     ELSE rows[i][d]]]

\* db.batchPut(snapshotItems), one of the two writes of the final Promise.all
HistBatchPut(p) ==
  LET r == req[p]
      put == [r EXCEPT !.putPending = FALSE]
  IN /\ r.kind = "history" /\ r.pc = "hist_write" /\ r.putPending
     /\ history' = batchPut(history, r.snapshotItems)
     /\ IF put.updates = {}
        THEN historyDone(p, put, historyResponse(put))
        ELSE /\ req' = [req EXCEPT ![p] = put]
             /\ UNCHANGED cache
     /\ UNCHANGED <<store, nextListing, started, live, minted, ledger, keyCommits, now, host,
                    activeSeller, rapFold>>

\* db.update(pk, 'CURRENT', { lastSnapshotDate: today }): SET on the row, which is
\* created when it does not exist
updateLastSnapshotDate(stored, today) ==
  IF stored.exists
  THEN [stored EXCEPT !.lastSnapshotDate = today]
  ELSE [exists |-> TRUE, rap |-> Undefined, lastUpdated |-> Undefined, lastSnapshotDate |-> today]

\* db.update of one item, one of the writes of the final Promise.all
HistUpdate(p, i) ==
  LET r == req[p]
      updated == [r EXCEPT !.updates = @ \ {i}]
  IN /\ r.kind = "history" /\ r.pc = "hist_write" /\ i \in r.updates
     /\ rap' = [rap EXCEPT ![i] = updateLastSnapshotDate(@, r.today)]
     /\ IF updated.updates = {} /\ ~updated.putPending
        THEN historyDone(p, updated, historyResponse(updated))
        ELSE /\ req' = [req EXCEPT ![p] = updated]
             /\ UNCHANGED cache
     /\ UNCHANGED <<inv, cardListing, packListing, userListings, itemListings, itemAttrs,
                    rapRegistry, idem, nextListing, started, live, minted, ledger, keyCommits,
                    side, rapFold>>

(* ------------------------------------------- GET /marketplace/find-sellers *)

\* a seller whose status is older than this is not active
ACTIVE_SELLER_TIMEOUT_MS == 60000
\* listings of one response
MAX_RESULTS == 30
\* Limit of the query of the item index
QUERY_LIMIT == 500

\* the order of the sort keys of the item index: listing ids as numbers, 'X' < 'Y'
skRank(k) == IF k[1] = "pack" THEN k[2] ELSE IF k[2] = "X" THEN 1 ELSE 2

\* db.query(`ITEM_LISTINGS#${itemType}#${itemName}`, { limit: 500 }): the listings stored
\* in the rows of the item, in the order of their sort keys
queryItemListings(item) ==
  LET ks == {k \in DOMAIN itemAttrs : k[1] = item[1] /\ itemAttrs[k].name = item[2]}
      n == Cardinality(ks)
      order == CHOOSE s \in [1..n -> ks] :
                 \A i, j \in 1..n : i < j => skRank(s[i]) < skRank(s[j])
      m == IF n < QUERY_LIMIT THEN n ELSE QUERY_LIMIT
  IN [i \in 1..m |-> itemAttrs[order[i]]]

\* a fetcher that asks the store for every key of the call
missingKeysAll(entries, ids) == ids

\* cachedBatch: the keys of the call that get() does not answer
missingKeys(entries, ids) == {u \in ids : ~hit(entries, sellerKey(u))}

\* cachedBatch: the Map after the get() of every key of the call
afterGets(entries, ids) ==
  [k \in DOMAIN entries |->
     IF (\E u \in ids : k = sellerKey(u)) /\ entries[k].exists /\ now > entries[k].expiresAt
     THEN NoEntry
     ELSE entries[k]]

\* cachedBatch: set(key, value, ttlMs) for every entry of the fetched map
setAll(entries, fetched, ttlMs) ==
  [k \in DOMAIN entries |->
     IF \E u \in DOMAIN fetched : k = sellerKey(u)
     THEN LET u == CHOOSE v \in DOMAIN fetched : k = sellerKey(v)
          IN [exists |-> TRUE, undef |-> FALSE, data |-> fetched[u],
              expiresAt |-> now + ttlMs, asOf |-> Cardinality(itemListings)]
     ELSE entries[k]]

\* seller?.active && now - new Date(seller.lastUpdated).getTime() < ACTIVE_SELLER_TIMEOUT_MS
isActive(seller) ==
  seller.exists /\ seller.active /\ now - seller.lastUpdated < ACTIVE_SELLER_TIMEOUT_MS

\* listing.cost >= rap * 0.95 && listing.cost <= rap * 1.3, the RAP in hundredths
inRange(listing, rapVal) ==
  /\ listing.cost * RapScale * 100 >= rapVal * 95
  /\ listing.cost * RapScale * 10 <= rapVal * 13

\* a comparator that looks at the cost only
compareCost(a, b, rapVal) == a.cost - b.cost

\* the comparator of sortListingsByRapPriority; !rap holds for undefined and for 0
compare(a, b, rapVal) ==
  IF rapVal = Undefined \/ rapVal = 0 THEN a.cost - b.cost
  ELSE IF inRange(a, rapVal) /\ ~inRange(b, rapVal) THEN -1
  ELSE IF ~inRange(a, rapVal) /\ inRange(b, rapVal) THEN 1
  ELSE a.cost - b.cost

\* Array.prototype.sort is stable: x goes behind every element that does not follow it
RECURSIVE insertSorted(_, _, _)
insertSorted(sorted, x, rapVal) ==
  IF sorted = <<>> THEN <<x>>
  ELSE IF compare(sorted[Len(sorted)], x, rapVal) <= 0 THEN Append(sorted, x)
  ELSE Append(insertSorted(SubSeq(sorted, 1, Len(sorted) - 1), x, rapVal), sorted[Len(sorted)])

\* sortListingsByRapPriority(listings, rap)
RECURSIVE sortListingsByRapPriority(_, _)
sortListingsByRapPriority(listings, rapVal) ==
  IF listings = <<>> THEN <<>>
  ELSE insertSorted(sortListingsByRapPriority(SubSeq(listings, 1, Len(listings) - 1), rapVal),
                    listings[Len(listings)], rapVal)

\* .slice(0, 30)
slice(s, n) == SubSeq(s, 1, IF Len(s) < n THEN Len(s) ELSE n)

\* the handler from the seller map on: the active filter, the ranking and the response
findRespond(r, sellers) ==
  LET activeListings == SelectSeq(r.listings, LAMBDA l : isActive(sellers[l.sellerId]))
      sorted == sortListingsByRapPriority(activeListings, r.rapVal)
      result == IF activeListings = <<>> THEN <<>> ELSE slice(sorted, MAX_RESULTS)
  IN Respond([r EXCEPT !.sellers = sellers, !.result = result],
             success(result, ""))

\* the handler after Promise.all([rapPromise, listingsPromise]), up to the next store
\* call: the empty answer, or cachedBatch up to its fetcher
findSellers(r, entries) ==
  LET sellerIds == {r.listings[i].sellerId : i \in DOMAIN r.listings}
      missing == missingKeys(entries, sellerIds)
      cachedSellers == [u \in sellerIds \ missing |-> entries[sellerKey(u)].data]
      \* not part of the program: the rows the store holds when the Map answers
      atLookup == [u \in sellerIds \ missing |-> activeSeller[u]]
  IN IF r.listings = <<>>
     THEN [r |-> Respond(r, success(<<>>, "")), entries |-> entries]
     ELSE IF missing = {}
     THEN [r |-> findRespond([r EXCEPT !.stored = atLookup], cachedSellers),
           entries |-> entries]
     ELSE [r |-> [r EXCEPT !.pc = "find_sellers", !.missing = missing,
                           !.sellers = cachedSellers, !.stored = atLookup],
           entries |-> afterGets(entries, sellerIds)]

\* the handler up to its first store call: the two cached() look at the Map
StartFind(p, item) ==
  LET entries == cache[host[p]]
      rapHit == hit(entries, rapKey(item))
      listingsHit == hit(entries, listingsKey(item))
      looked == get(get(entries, rapKey(item)), listingsKey(item))
      r == [Idle EXCEPT !.kind = "find", !.pc = "find_fetch", !.item = item,
                        !.fetching = (IF rapHit THEN {} ELSE {"rap"})
                                       \cup (IF listingsHit THEN {} ELSE {"listings"}),
                        !.rapVal = IF rapHit THEN entries[rapKey(item)].data ELSE Undefined,
                        !.listings = IF listingsHit THEN entries[listingsKey(item)].data
                                     ELSE <<>>,
                        !.fromCache = listingsHit,
                        !.entryAsOf = IF listingsHit THEN entries[listingsKey(item)].asOf
                                      ELSE 0,
                        !.startAsOf = Cardinality(itemListings)]
      joined == findSellers(r, looked)
  IN /\ CanStart(p)
     /\ started' = started + 1
     /\ IF r.fetching = {}
        THEN /\ req' = [req EXCEPT ![p] = joined.r]
             /\ cache' = [cache EXCEPT ![host[p]] = joined.entries]
        ELSE /\ req' = [req EXCEPT ![p] = r]
             /\ cache' = [cache EXCEPT ![host[p]] = looked]
     /\ UNCHANGED <<store, nextListing, live, minted, ledger, keyCommits, side, rapFold>>

\* a fetcher of the two returns; the handler goes on when both have
findFetched(p, r, entries) ==
  LET joined == findSellers(r, entries)
  IN IF r.fetching = {}
     THEN /\ req' = [req EXCEPT ![p] = joined.r]
          /\ cache' = [cache EXCEPT ![host[p]] = joined.entries]
     ELSE /\ req' = [req EXCEPT ![p] = r]
          /\ cache' = [cache EXCEPT ![host[p]] = entries]

\* cached(`rap:${itemType}:${itemName}`, TTL.RAP, ...): db.get of the RAP row, then set
FindFetchRap(p) ==
  LET r == req[p]
      rapItem == rap[r.item]
      data == IF rapItem.exists THEN rapItem.rap ELSE Undefined
  IN /\ r.kind = "find" /\ r.pc = "find_fetch" /\ "rap" \in r.fetching
     /\ findFetched(p, [r EXCEPT !.fetching = @ \ {"rap"}, !.rapVal = data],
                    set(cache[host[p]], rapKey(r.item), data, data = Undefined, TTL.RAP))
     /\ UNCHANGED <<store, nextListing, started, live, minted, ledger, keyCommits, side,
                    rapFold>>

\* cached(`listings:${itemType}:${itemName}`, TTL.LISTINGS_INDEX, ...): the query of the
\* item index, then set
FindFetchListings(p) ==
  LET r == req[p]
      data == queryItemListings(r.item)
  IN /\ r.kind = "find" /\ r.pc = "find_fetch" /\ "listings" \in r.fetching
     /\ findFetched(p, [r EXCEPT !.fetching = @ \ {"listings"}, !.listings = data],
                    set(cache[host[p]], listingsKey(r.item), data, FALSE, TTL.LISTINGS_INDEX))
     /\ UNCHANGED <<store, nextListing, started, live, minted, ledger, keyCommits, side,
                    rapFold>>

\* the fetcher of cachedBatch: db.batchGet of the missing ACTIVE_SELLER rows (null for a
\* seller without a row), every fetched entry set, the hits merged with the fetched
FindFetchSellers(p) ==
  LET r == req[p]
      fetched == [u \in r.missing |-> activeSeller[u]]
      sellers == fetched @@ r.sellers
  IN /\ r.kind = "find" /\ r.pc = "find_sellers"
     /\ req' = [req EXCEPT ![p] =
                  findRespond([r EXCEPT !.fetches = @ + 1, !.fetchedKeys = r.missing,
                                       !.stored = fetched @@ @],
                              sellers)]
     /\ cache' = [cache EXCEPT ![host[p]] = setAll(@, fetched, TTL.ACTIVE_SELLERS)]
     /\ UNCHANGED <<store, nextListing, started, live, minted, ledger, keyCommits, side,
                    rapFold>>

(* ------------------------------------------- POST /marketplace/sellers/toggle *)

\* the handler up to db.batchPut, for a body with one entry: the timestamp is taken
\* before the store call
StartToggle(p, u, active) ==
  /\ CanStart(p)
  /\ started' = started + 1
  /\ req' = [req EXCEPT ![p] =
       [Idle EXCEPT !.kind = "toggle", !.pc = "toggle_put", !.user = u, !.active = active,
                    !.timestamp = now]]
  /\ UNCHANGED <<store, nextListing, live, minted, ledger, keyCommits, side, cache, rapFold>>

\* db.batchPut(items): the status row of the seller is replaced; no cache entry is touched
TogglePut(p) ==
  LET r == req[p]
  IN /\ r.kind = "toggle" /\ r.pc = "toggle_put"
     /\ activeSeller' = [activeSeller EXCEPT ![r.user] =
          [exists |-> TRUE, active |-> r.active, lastUpdated |-> r.timestamp]]
     /\ req' = [req EXCEPT ![p] = Respond(r, success(<<>>, "updated seller status"))]
     /\ UNCHANGED <<store, nextListing, started, live, minted, ledger, keyCommits, now, host,
                    history, cache, rapFold>>

(* ---------------------------------------------------------- store errors *)

\* the first step of the retried operation of each handler
retryFrom(kind) ==
  CASE kind = "modify" -> "mod_read"
    [] kind = "list" -> "list_read"
    [] kind = "unlist" -> "unlist_read"
    [] kind = "buy" -> "buy_read"
    [] OTHER -> "tr_read"

\* the store calls made inside a retry loop
FaultPcs ==
  {"mod_read", "mod_put", "list_read", "list_got_count", "list_got_inv", "list_check",
   "list_commit", "unlist_read", "unlist_inv", "unlist_commit", "buy_read", "buy_inv",
   "buy_commit", "tr_read", "tr_commit"}

\* a store call inside the retry loop fails with an error that is not a cancelled
\* transaction and has no effect on the store; modify answers 500 for whatever it catches
StoreError(p) ==
  LET r == req[p]
  IN /\ r.pc \in FaultPcs
     /\ \E errorName \in StoreErrors :
          req' = [req EXCEPT ![p] =
            IF r.kind = "modify"
            THEN Respond([r EXCEPT !.raised = errorName],
                         buildResponse(500, "failed to modify user inventory"))
            ELSE catchError(r, errorName, retryFrom(r.kind), "operation failed")]
     /\ UNCHANGED <<store, nextListing, started, live, minted, ledger, keyCommits, side, cache, rapFold>>

\* cleanupCardListing catches whatever its transactWrite throws: the store is left as
\* it was and the handler answers Gone
BuyCleanupFails(p) ==
  LET r == req[p]
  IN /\ r.kind = "buy" /\ r.pc = "buy_cleanup"
     /\ \E errorName \in StoreErrors \cup {TransactionCanceled} :
          req' = [req EXCEPT ![p] =
            Respond([r EXCEPT !.raised = errorName],
                    buildResponse(410, "card no longer exists in seller inventory"))]
     /\ UNCHANGED <<store, nextListing, started, live, minted, ledger, keyCommits, side, cache,
                    rapFold>>

(* ------------------------------------------------------------ behaviours *)

\* The store as two modify requests leave it: A holds card X and one pack P (one request
\* with addCard X and addPack P), B holds nothing (addPack P then removePack P), C has no row.
SeededInv ==
  [u \in Users |->
     IF u = "A" THEN [exists |-> TRUE, cards |-> <<"X">>,
                      packs |-> [n \in PackNames |-> 1], version |-> 1]
     ELSE IF u = "B" THEN [EmptyInv EXCEPT !.exists = TRUE, !.version = 1]
     ELSE EmptyInv]

\* every request slot in a Node process of its own with an empty cache, at time 0; no
\* sale, no history row and no active seller yet
Quiet ==
  /\ now = 0
  /\ host = [p \in Procs |-> p]
  /\ cache = [h \in Procs |-> [k \in CacheKeys |-> NoEntry]]
  /\ history = [i \in Items |-> [d \in Days |-> NoRow]]
  /\ activeSeller = [u \in Users |-> NoRow]
  /\ rapFold = [i \in Items |-> NoRow]

Init ==
  /\ inv = SeededInv
  /\ cardListing = [c \in Cards |-> NoRow]
  /\ packListing = [l \in ListingIds |-> NoRow]
  /\ userListings = {}
  /\ itemListings = {}
  /\ itemAttrs = <<>>
  /\ rap = [i \in Items |-> NoRow]
  /\ rapRegistry = {}
  /\ idem = [k \in Keys |-> NoRow]
  /\ req = [p \in Procs |-> Idle]
  /\ nextListing = 1
  /\ started = 0
  /\ live = {"X"}
  /\ minted = {"X"}
  /\ ledger = [u \in Users |-> [n \in PackNames |-> inv[u].packs[n]]]
  /\ keyCommits = [k \in Keys |-> 0]
  /\ Quiet

ModifyInputs ==
  {<<AddPack("P", 0)>>, <<RemovePack("P", 0)>>, <<AddCard("Y")>>, <<RemoveCard("X")>>}

\* two legs of one request: X from A to B, then X from B to C
ChainedLegs == <<Leg("A", "B", <<"X">>, <<>>), Leg("B", "C", <<"X">>, <<>>)>>

TransferInputs ==
  {ChainedLegs,
   <<Leg("A", "B", <<"X">>, <<>>)>>,
   <<Leg("A", "B", <<>>, <<PackMove("P", 1)>>)>>,
   <<Leg("B", "C", <<"X">>, <<PackMove("P", 1)>>)>>,
   <<Leg("A", "A", <<"X">>, <<>>)>>}

Step(p) ==
  \/ ModifyRead(p) \/ ModifyPut(p)
  \/ ListQueryListings(p) \/ ListRead(p) \/ ListCheckExisting(p) \/ ListCommit(p)
  \/ UnlistRead(p) \/ UnlistReadInventory(p) \/ UnlistCommit(p)
  \/ BuyReadListing(p) \/ BuyReadInventories(p) \/ BuyCleanup(p) \/ BuyCommit(p)
  \/ TransferGetMarker(p) \/ TransferPutMarker(p) \/ TransferRead(p)
  \/ TransferCommit(p) \/ TransferFinalize(p)

Start(p) ==
  \/ \E u \in {"A", "B"}, ops \in ModifyInputs : StartModify(p, u, ops)
  \/ \E u \in {"A", "B"}, cost \in Costs : StartList(p, u, "card", "X", "", cost)
  \/ \E u \in {"A", "B"}, cost \in Costs : StartList(p, u, "pack", "", "P", cost)
  \/ \E u \in {"A", "B"} : StartUnlist(p, u, "card", "X", 0)
  \/ \E u \in {"A", "B"}, lid \in 1..2 : StartUnlist(p, u, "pack", "", lid)
  \/ \E b \in {"B", "C"}, cost \in Costs : StartBuy(p, b, "card", "X", 0, cost)
  \/ \E b \in {"A", "B", "C"}, cost \in Costs, lid \in 1..2 : StartBuy(p, b, "pack", "", lid, cost)
  \/ \E k \in Keys, legs \in TransferInputs : StartTransfer(p, k, legs)

Next ==
  \/ \E p \in Procs : started < MaxRequests /\ Start(p)
  \/ \E p \in Procs : Step(p)

Spec == Init /\ [][Next]_vars


\* one request at a time: a single process serves the requests one after the other
NextSeq ==
  \/ started < MaxRequests /\ Start(1)
  \/ Step(1)

SpecSeq == Init /\ [][NextSeq]_vars

\* one transfer of a pack from A to B, against a stream of addPack requests on A
RetryTransfer == <<Leg("A", "B", <<>>, <<PackMove("P", 1)>>)>>

NextRetry ==
  \/ started = 0 /\ StartTransfer(1, "k1", RetryTransfer)
  \/ started \in 1..(MaxRetryRequests - 1) /\ StartModify(2, "A", <<AddPack("P", 0)>>)
  \/ TransferGetMarker(1) \/ TransferPutMarker(1) \/ TransferRead(1)
  \/ TransferCommit(1) \/ TransferFinalize(1)
  \/ ModifyRead(2) \/ ModifyPut(2)

SpecRetry == Init /\ [][NextRetry]_vars

\* the handlers with store calls that fail
NextFault ==
  \/ \E p \in Procs : started < MaxFaultRequests /\ Start(p)
  \/ \E p \in Procs : Step(p)
  \/ \E p \in Procs : StoreError(p)
  \/ \E p \in Procs : BuyCleanupFails(p)

SpecFault == Init /\ [][NextFault]_vars

\* listing ids of the scenario at the cap: those in use and those still to hand out
CapListingIds == 1..(MAX_LISTINGS + MaxCapRequests)

\* A after one modify request (addCard X, addPack P x MAX_LISTINGS + 1) and
\* MAX_LISTINGS - 1 successful pack list requests: one listing below the cap
CapInit ==
  /\ inv = [SeededInv EXCEPT !["A"] =
              [exists |-> TRUE, cards |-> <<"X">>, packs |-> [n \in PackNames |-> 2],
               version |-> MAX_LISTINGS]]
  /\ cardListing = [c \in Cards |-> NoRow]
  /\ packListing = [l \in CapListingIds |->
                      IF l < MAX_LISTINGS
                      THEN [exists |-> TRUE, packName |-> "P", sellerId |-> "A", cost |-> 1]
                      ELSE NoRow]
  /\ userListings = {<<"A", "pack", l>> : l \in 1..(MAX_LISTINGS - 1)}
  /\ itemListings = {<<"pack", l>> : l \in 1..(MAX_LISTINGS - 1)}
  /\ itemAttrs = [k \in itemListings |->
                    [type |-> "pack", id |-> k[2], name |-> "P", sellerId |-> "A", cost |-> 1]]
  /\ rap = [i \in Items |-> NoRow]
  /\ rapRegistry = {}
  /\ idem = [k \in Keys |-> NoRow]
  /\ req = [p \in Procs |-> Idle]
  /\ nextListing = MAX_LISTINGS
  /\ started = 0
  /\ live = {"X"}
  /\ minted = {"X"}
  /\ ledger = [u \in Users |-> [n \in PackNames |-> inv[u].packs[n]]]
  /\ keyCommits = [k \in Keys |-> 0]
  /\ Quiet

\* concurrent list requests of A, of a pack or of the card
NextCap ==
  \/ \E p \in Procs : started < MaxCapRequests /\ StartList(p, "A", "pack", "", "P", 1)
  \/ \E p \in Procs : started < MaxCapRequests /\ StartList(p, "A", "card", "X", "", 1)
  \/ \E p \in Procs : ListQueryListings(p)
  \/ \E p \in Procs : ListRead(p)
  \/ \E p \in Procs : ListCheckExisting(p)
  \/ \E p \in Procs : ListCommit(p)

SpecCap == CapInit /\ [][NextCap]_vars

\* purchases started in the sales scenario
MaxSaleRequests == 3
SalePrices == {100, 200}
SaleListings == 1..3

\* A after one modify request (addPack P x 3) and three pack list requests, at prices
\* drawn from SalePrices: no pack left, three listings, nothing sold yet
SalesInit ==
  /\ inv = [SeededInv EXCEPT !["A"] =
              [exists |-> TRUE, cards |-> <<>>, packs |-> [n \in PackNames |-> 0],
               version |-> 4]]
  /\ cardListing = [c \in Cards |-> NoRow]
  /\ \E price \in [SaleListings -> SalePrices] :
       /\ packListing = [l \in ListingIds |->
                           IF l \in SaleListings
                           THEN [exists |-> TRUE, packName |-> "P", sellerId |-> "A",
                                 cost |-> price[l]]
                           ELSE NoRow]
       /\ itemAttrs = [k \in {<<"pack", l>> : l \in SaleListings} |->
                         [type |-> "pack", id |-> k[2], name |-> "P", sellerId |-> "A",
                          cost |-> price[k[2]]]]
  /\ userListings = {<<"A", "pack", l>> : l \in SaleListings}
  /\ itemListings = {<<"pack", l>> : l \in SaleListings}
  /\ rap = [i \in Items |-> NoRow]
  /\ rapRegistry = {}
  /\ idem = [k \in Keys |-> NoRow]
  /\ req = [p \in Procs |-> Idle]
  /\ nextListing = 4
  /\ started = 0
  /\ live = {}
  /\ minted = {}
  /\ ledger = [u \in Users |-> [n \in PackNames |-> inv[u].packs[n]]]
  /\ keyCommits = [k \in Keys |-> 0]
  /\ Quiet

\* purchases of the three listings by B and C, in two processes
NextSales ==
  \/ \E p \in Procs, b \in {"B", "C"}, lid \in SaleListings, cost \in SalePrices :
       started < MaxSaleRequests /\ StartBuy(p, b, "pack", "", lid, cost)
  \/ \E p \in Procs : BuyReadListing(p)
  \/ \E p \in Procs : BuyReadInventories(p)
  \/ \E p \in Procs : BuyCommit(p)

SpecSales == SalesInit /\ [][NextSales]_vars

\* requests started in the history scenarios
MaxHistRequests == 3

\* The store after A listed a pack P at 200 (listing 1), after one earlier sale of P at
\* 100 on day 0, and after a history request that same day (it found no date to
\* snapshot and set lastSnapshotDate), or before any history request
HistInit ==
  /\ inv = [SeededInv EXCEPT !["A"] =
              [exists |-> TRUE, cards |-> <<>>, packs |-> [n \in PackNames |-> 0],
               version |-> 3]]
  /\ cardListing = [c \in Cards |-> NoRow]
  /\ packListing = [l \in ListingIds |->
                      IF l = 1
                      THEN [exists |-> TRUE, packName |-> "P", sellerId |-> "A", cost |-> 200]
                      ELSE NoRow]
  /\ userListings = {<<"A", "pack", 1>>}
  /\ itemListings = {<<"pack", 1>>}
  /\ itemAttrs = (<<"pack", 1>> :>
                    [type |-> "pack", id |-> 1, name |-> "P", sellerId |-> "A", cost |-> 200])
  /\ \E lastSnapshotDate \in {Undefined, 0} :
       rap = [i \in Items |->
                IF i = <<"pack", "P">>
                THEN [exists |-> TRUE, rap |-> 100 * RapScale, lastUpdated |-> 0,
                      lastSnapshotDate |-> lastSnapshotDate]
                ELSE NoRow]
  /\ rapRegistry = {<<"pack", "P">>}
  /\ idem = [k \in Keys |-> NoRow]
  /\ req = [p \in Procs |-> Idle]
  /\ nextListing = 2
  /\ started = 0
  /\ live = {}
  /\ minted = {}
  /\ ledger = [u \in Users |-> [n \in PackNames |-> inv[u].packs[n]]]
  /\ keyCommits = [k \in Keys |-> 0]
  /\ now = 0
  /\ host = [p \in Procs |-> p]
  /\ cache = [h \in Procs |-> [k \in CacheKeys |-> NoEntry]]
  /\ history = [i \in Items |-> [d \in Days |-> NoRow]]
  /\ activeSeller = [u \in Users |-> NoRow]
  /\ rapFold = [i \in Items |-> IF rap[i].exists THEN [exists |-> TRUE, rap |-> rap[i].rap] ELSE NoRow]

\* midnight: the clock moves to the start of the next day
NextDay ==
  /\ getDateString(now) < MaxDay
  /\ now' = (getDateString(now) + 1) * MsPerDay
  /\ UNCHANGED <<store, req, nextListing, started, live, minted, ledger, keyCommits, host,
                 cache, history, activeSeller, rapFold>>

\* the time it takes a history cache entry set at midnight to expire passes
ExpireHistory ==
  /\ now % MsPerDay = 0
  /\ now' = now + TTL.HISTORY + 1
  /\ UNCHANGED <<store, req, nextListing, started, live, minted, ledger, keyCommits, host,
                 cache, history, activeSeller, rapFold>>

\* the steps of a history request and of a purchase
HistStep(p) ==
  \/ HistRegistry(p) \/ HistBatchGet(p)
  \/ \E i \in Items : HistQuery(p, i)
  \/ HistBatchPut(p)
  \/ \E i \in Items : HistUpdate(p, i)
  \/ BuyReadListing(p) \/ BuyReadInventories(p) \/ BuyCommit(p)

\* history requests and the purchase of listing 1 by B, one request at a time
NextHistSeq ==
  \/ NextDay
  \/ ExpireHistory
  \/ started < MaxHistRequests /\ StartHistory(1)
  \/ started < MaxHistRequests /\ StartBuy(1, "B", "pack", "", 1, 200)
  \/ HistStep(1)

SpecHistSeq == HistInit /\ [][NextHistSeq]_vars

\* the same requests in two processes
NextHist ==
  \/ NextDay
  \/ ExpireHistory
  \/ \E p \in Procs : started < MaxHistRequests /\ StartHistory(p)
  \/ \E p \in Procs : started < MaxHistRequests /\ StartBuy(p, "B", "pack", "", 1, 200)
  \/ \E p \in Procs : HistStep(p)

SpecHist == HistInit /\ [][NextHist]_vars

\* requests started in the find-sellers scenario
MaxFindRequests == 2
FindCosts == {90, 95, 130, 140}
FindListings == 1..3
\* the time of the scenario's first state, in milliseconds
FindEpoch == 20000

\* a status row written by the toggle handler at time 0
StatusRow(active) == [exists |-> TRUE, active |-> active, lastUpdated |-> 0]

\* The store after A listed pack P twice (listings 1 and 3) and B once (listing 2), at
\* prices drawn from FindCosts, with or without an earlier sale of P at 100, and with or
\* without an active status of each seller.  Process 1 has answered find-sellers
\* requests before: for each seller its Map holds no entry, an entry that is still
\* served, or one that has expired.
FindInit ==
  /\ inv = [u \in Users |->
              IF u \in {"A", "B"}
              THEN [exists |-> TRUE, cards |-> <<>>, packs |-> [n \in PackNames |-> 0],
                    version |-> 3]
              ELSE EmptyInv]
  /\ cardListing = [c \in Cards |-> NoRow]
  /\ \E price \in [FindListings -> FindCosts] :
       /\ packListing = [l \in ListingIds |->
                           IF l \in FindListings
                           THEN [exists |-> TRUE, packName |-> "P",
                                 sellerId |-> IF l = 2 THEN "B" ELSE "A", cost |-> price[l]]
                           ELSE NoRow]
       /\ itemAttrs = [k \in {<<"pack", l>> : l \in FindListings} |->
                         [type |-> "pack", id |-> k[2], name |-> "P",
                          sellerId |-> IF k[2] = 2 THEN "B" ELSE "A", cost |-> price[k[2]]]]
  /\ userListings = {<<IF l = 2 THEN "B" ELSE "A", "pack", l>> : l \in FindListings}
  /\ itemListings = {<<"pack", l>> : l \in FindListings}
  /\ \E sold \in BOOLEAN :
       /\ rap = [i \in Items |->
                   IF sold /\ i = <<"pack", "P">>
                   THEN [exists |-> TRUE, rap |-> 100 * RapScale, lastUpdated |-> 0,
                         lastSnapshotDate |-> Undefined]
                   ELSE NoRow]
       /\ rapRegistry = IF sold THEN {<<"pack", "P">>} ELSE {}
  /\ idem = [k \in Keys |-> NoRow]
  /\ req = [p \in Procs |-> Idle]
  /\ nextListing = 4
  /\ started = 0
  /\ live = {}
  /\ minted = {}
  /\ ledger = [u \in Users |-> [n \in PackNames |-> inv[u].packs[n]]]
  /\ keyCommits = [k \in Keys |-> 0]
  /\ now = FindEpoch
  /\ host = [p \in Procs |-> p]
  /\ \E status \in [{"A", "B"} -> {"active", "none"}] :
       activeSeller = [u \in Users |->
                         IF u \in {"A", "B"} /\ status[u] = "active"
                         THEN StatusRow(TRUE) ELSE NoRow]
  /\ \E kept \in [{"A", "B"} -> {"none", "served", "expired"}] :
       cache = [h \in Procs |-> [k \in CacheKeys |->
                  IF h = 1 /\ (\E u \in {"A", "B"} : k = sellerKey(u) /\ kept[u] # "none")
                  THEN LET u == CHOOSE v \in {"A", "B"} : k = sellerKey(v)
                       IN [exists |-> TRUE, undef |-> FALSE, data |-> activeSeller[u],
                           expiresAt |-> IF kept[u] = "served" THEN now + 9000
                                         ELSE now - 5000,
                           asOf |-> 3]
                  ELSE NoEntry]]
  /\ history = [i \in Items |-> [d \in Days |-> NoRow]]
  /\ rapFold = [i \in Items |-> IF rap[i].exists THEN [exists |-> TRUE, rap |-> rap[i].rap] ELSE NoRow]

\* find-sellers requests for pack P, in two processes
NextFind ==
  \/ \E p \in Procs : started < MaxFindRequests /\ StartFind(p, <<"pack", "P">>)
  \/ \E p \in Procs : FindFetchRap(p)
  \/ \E p \in Procs : FindFetchListings(p)
  \/ \E p \in Procs : FindFetchSellers(p)

SpecFind == FindInit /\ [][NextFind]_vars

\* requests started in the scenario of one Node process
MaxCacheRequests == 3

\* The store of Init with an active status of the seller A, and both request slots in
\* the same Node process: they share one Map
CacheInit ==
  /\ inv = SeededInv
  /\ cardListing = [c \in Cards |-> NoRow]
  /\ packListing = [l \in ListingIds |-> NoRow]
  /\ userListings = {}
  /\ itemListings = {}
  /\ itemAttrs = <<>>
  /\ rap = [i \in Items |-> NoRow]
  /\ rapRegistry = {}
  /\ idem = [k \in Keys |-> NoRow]
  /\ req = [p \in Procs |-> Idle]
  /\ nextListing = 1
  /\ started = 0
  /\ live = {"X"}
  /\ minted = {"X"}
  /\ ledger = [u \in Users |-> [n \in PackNames |-> inv[u].packs[n]]]
  /\ keyCommits = [k \in Keys |-> 0]
  /\ now = 0
  /\ host = [p \in Procs |-> 1]
  /\ cache = [h \in Procs |-> [k \in CacheKeys |-> NoEntry]]
  /\ history = [i \in Items |-> [d \in Days |-> NoRow]]
  /\ activeSeller = [u \in Users |-> IF u = "A" THEN StatusRow(TRUE) ELSE NoRow]
  /\ rapFold = [i \in Items |-> NoRow]

\* A lists pack P, B buys a listing of it, and find-sellers requests for P
NextCache ==
  \/ \E p \in Procs, cost \in Costs :
       started < MaxCacheRequests /\ StartList(p, "A", "pack", "", "P", cost)
  \/ \E p \in Procs : started < MaxCacheRequests /\ StartFind(p, <<"pack", "P">>)
  \/ \E p \in Procs, cost \in Costs :
       started < MaxCacheRequests /\ StartBuy(p, "B", "pack", "", 1, cost)
  \/ \E p \in Procs : ListQueryListings(p)
  \/ \E p \in Procs : ListRead(p)
  \/ \E p \in Procs : ListCommit(p)
  \/ \E p \in Procs : FindFetchRap(p)
  \/ \E p \in Procs : FindFetchListings(p)
  \/ \E p \in Procs : FindFetchSellers(p)
  \/ \E p \in Procs : BuyReadListing(p)
  \/ \E p \in Procs : BuyReadInventories(p)
  \/ \E p \in Procs : BuyCommit(p)

SpecCache == CacheInit /\ [][NextCache]_vars

\* requests started in the scenario of malformed requests
MaxShapeRequests == 3

\* bodies of transfer requests: no leg, a leg to oneself, a leg that moves nothing, and
\* a well-formed leg
ShapeTransferInputs ==
  {<<>>,
   <<Leg("A", "A", <<"X">>, <<>>)>>,
   <<Leg("A", "B", <<>>, <<>>)>>,
   <<Leg("A", "B", <<"X">>, <<>>)>>}

\* modify requests without operations, list requests with cost 0, and transfers
NextShape ==
  \/ \E p \in Procs : started < MaxShapeRequests /\ StartModify(p, "A", <<>>)
  \/ \E p \in Procs : started < MaxShapeRequests /\ StartList(p, "A", "pack", "", "P", 0)
  \/ \E p \in Procs, k \in Keys, legs \in ShapeTransferInputs :
       started < MaxShapeRequests /\ StartTransfer(p, k, legs)
  \/ \E p \in Procs : TransferGetMarker(p)
  \/ \E p \in Procs : TransferPutMarker(p)
  \/ \E p \in Procs : TransferRead(p)
  \/ \E p \in Procs : TransferCommit(p)
  \/ \E p \in Procs : TransferFinalize(p)

SpecShape == Init /\ [][NextShape]_vars

\* requests started in the scenario of seller statuses
MaxLiveRequests == 4
\* the clock of the scenario moves in steps of TickMs, up to MaxTicks steps
TickMs == 30000
MaxTicks == 2

\* A listed pack P at 95 (listing 1) and B at 130 (listing 2); no sale and no status yet
LiveInit ==
  /\ inv = [u \in Users |->
              IF u \in {"A", "B"}
              THEN [exists |-> TRUE, cards |-> <<>>, packs |-> [n \in PackNames |-> 0],
                    version |-> 2]
              ELSE EmptyInv]
  /\ cardListing = [c \in Cards |-> NoRow]
  /\ packListing = [l \in ListingIds |->
                      IF l = 1 THEN [exists |-> TRUE, packName |-> "P", sellerId |-> "A",
                                     cost |-> 95]
                      ELSE IF l = 2 THEN [exists |-> TRUE, packName |-> "P", sellerId |-> "B",
                                          cost |-> 130]
                      ELSE NoRow]
  /\ itemAttrs = [k \in {<<"pack", 1>>, <<"pack", 2>>} |->
                    [type |-> "pack", id |-> k[2], name |-> "P",
                     sellerId |-> IF k[2] = 1 THEN "A" ELSE "B",
                     cost |-> IF k[2] = 1 THEN 95 ELSE 130]]
  /\ userListings = {<<"A", "pack", 1>>, <<"B", "pack", 2>>}
  /\ itemListings = {<<"pack", 1>>, <<"pack", 2>>}
  /\ rap = [i \in Items |-> NoRow]
  /\ rapRegistry = {}
  /\ idem = [k \in Keys |-> NoRow]
  /\ req = [p \in Procs |-> Idle]
  /\ nextListing = 3
  /\ started = 0
  /\ live = {}
  /\ minted = {}
  /\ ledger = [u \in Users |-> [n \in PackNames |-> inv[u].packs[n]]]
  /\ keyCommits = [k \in Keys |-> 0]
  /\ Quiet

\* time passes
Tick ==
  /\ now < MaxTicks * TickMs
  /\ now' = now + TickMs
  /\ UNCHANGED <<store, req, nextListing, started, live, minted, ledger, keyCommits, host,
                 cache, history, activeSeller, rapFold>>

\* status updates of the two sellers and find-sellers requests for pack P
NextLive ==
  \/ Tick
  \/ \E p \in Procs, u \in {"A", "B"}, active \in BOOLEAN :
       started < MaxLiveRequests /\ StartToggle(p, u, active)
  \/ \E p \in Procs : started < MaxLiveRequests /\ StartFind(p, <<"pack", "P">>)
  \/ \E p \in Procs : TogglePut(p)
  \/ \E p \in Procs : FindFetchRap(p)
  \/ \E p \in Procs : FindFetchListings(p)
  \/ \E p \in Procs : FindFetchSellers(p)

SpecLive == LiveInit /\ [][NextLive]_vars

\* requests started in the scenario of modify requests with several operations
MaxModifyRequests == 3

\* bodies whose second operation fails after the first was applied in memory, and one
\* whose operations all succeed for A
ModifyBatches ==
  {<<AddPack("P", 0), RemoveCard("Y")>>,
   <<AddCard("Y"), RemovePack("P", 3)>>,
   <<RemoveCard("X"), SetCardLevel("X", 2)>>,
   <<AddPack("P", 0), SetCardLevel("X", 0)>>,
   <<AddPack("P", 0), SetCardLevel("X", Undefined)>>,
   <<AddPack("P", 0), AddPack("", 0)>>,
   <<RemovePack("P", 0), [action |-> "sellCard", card |-> "X", pack |-> "", qty |-> 0]>>,
   <<AddPack("P", 0), SetCardLevel("X", 2)>>}

\* modify requests on A and B, in two processes
NextModify ==
  \/ \E p \in Procs, u \in {"A", "B"}, ops \in ModifyBatches :
       started < MaxModifyRequests /\ StartModify(p, u, ops)
  \/ \E p \in Procs : ModifyRead(p)
  \/ \E p \in Procs : ModifyPut(p)

SpecModify == Init /\ [][NextModify]_vars

\* requests started in the scenario of one request against a stream of conflicting ones
MaxTermRequests == 7

\* A holds card X and one pack P and has listing 1 of a second pack P open at cost 1
TermInit ==
  /\ inv = [SeededInv EXCEPT !["A"].version = 2]
  /\ cardListing = [c \in Cards |-> NoRow]
  /\ packListing = [l \in ListingIds |->
                      IF l = 1
                      THEN [exists |-> TRUE, packName |-> "P", sellerId |-> "A", cost |-> 1]
                      ELSE NoRow]
  /\ itemAttrs = (<<"pack", 1>> :> [type |-> "pack", id |-> 1, name |-> "P",
                                    sellerId |-> "A", cost |-> 1])
  /\ userListings = {<<"A", "pack", 1>>}
  /\ itemListings = {<<"pack", 1>>}
  /\ rap = [i \in Items |-> NoRow]
  /\ rapRegistry = {}
  /\ idem = [k \in Keys |-> NoRow]
  /\ req = [p \in Procs |-> Idle]
  /\ nextListing = 2
  /\ started = 0
  /\ live = {"X"}
  /\ minted = {"X"}
  /\ ledger = [u \in Users |-> [n \in PackNames |-> inv[u].packs[n]]]
  /\ keyCommits = [k \in Keys |-> 0]
  /\ Quiet

\* the steps of the request in process 1 and of the modify requests in process 2
TermStep(p) ==
  \/ ModifyRead(p) \/ ModifyPut(p)
  \/ p = 1 /\ (ListQueryListings(p) \/ ListRead(p) \/ ListCommit(p))
  \/ p = 1 /\ (UnlistRead(p) \/ UnlistReadInventory(p) \/ UnlistCommit(p))
  \/ p = 1 /\ (BuyReadListing(p) \/ BuyReadInventories(p) \/ BuyCommit(p))
  \/ p = 1 /\ (TransferGetMarker(p) \/ TransferPutMarker(p) \/ TransferRead(p)
                 \/ TransferCommit(p) \/ TransferFinalize(p))

\* one list, buy, unlist, modify or transfer request in process 1, against a stream of
\* modify requests on the same inventories in process 2
NextTerm ==
  \/ started = 0 /\ StartModify(1, "A", <<AddPack("P", 0)>>)
  \/ started = 0 /\ StartList(1, "A", "pack", "", "P", 1)
  \/ started = 0 /\ StartUnlist(1, "A", "pack", "", 1)
  \/ started = 0 /\ StartBuy(1, "B", "pack", "", 1, 1)
  \/ started = 0 /\ StartTransfer(1, "k1", RetryTransfer)
  \/ \E u \in {"A", "B"} :
       started \in 1..(MaxTermRequests - 1) /\ StartModify(2, u, <<AddPack("P", 0)>>)
  \/ \E p \in Procs : TermStep(p)

SpecTerm == TermInit /\ [][NextTerm]_vars

\* every awaited store call is answered and Node runs the continuation of the handler
\* that awaits it: a step of a request that stays possible is eventually taken
SpecTermFair == SpecTerm /\ \A p \in Procs : WF_vars(TermStep(p))

\* requests started in the scenario of transfers that fail at a later leg
MaxLegRequests == 3

\* transfers whose second leg fails after the first was applied in memory (insufficient
\* packs, source inventory missing, card not in the source inventory), one whose pack move
\* fails after the card move of the same leg, and one that succeeds
LegInputs ==
  {<<Leg("A", "B", <<"X">>, <<>>), Leg("B", "C", <<>>, <<PackMove("P", 2)>>)>>,
   <<Leg("A", "B", <<>>, <<PackMove("P", 1)>>), Leg("C", "A", <<"X">>, <<>>)>>,
   <<Leg("A", "B", <<"X">>, <<>>), Leg("A", "C", <<"X">>, <<>>)>>,
   <<Leg("A", "B", <<"X">>, <<PackMove("P", 2)>>)>>,
   <<Leg("A", "B", <<>>, <<PackMove("P", 1)>>)>>}

\* transfers of several legs under two keys, in two processes
NextLegs ==
  \/ \E p \in Procs, k \in Keys, legs \in LegInputs :
       started < MaxLegRequests /\ StartTransfer(p, k, legs)
  \/ \E p \in Procs : TransferGetMarker(p)
  \/ \E p \in Procs : TransferPutMarker(p)
  \/ \E p \in Procs : TransferRead(p)
  \/ \E p \in Procs : TransferCommit(p)
  \/ \E p \in Procs : TransferFinalize(p)

SpecLegs == Init /\ [][NextLegs]_vars

\* requests started in the scenario of signed quantities
MaxQtyRequests == 3

\* the quantities of the scenario: none given (0), positive and negative integers
Quantities == {-2, -1, 0, 1}

\* addPack, removePack and transfer legs with any of the quantities, and pack listings,
\* in two processes
NextQty ==
  \/ \E p \in Procs, u \in {"A", "B"}, q \in Quantities :
       started < MaxQtyRequests /\ StartModify(p, u, <<AddPack("P", q)>>)
  \/ \E p \in Procs, u \in {"A", "B"}, q \in Quantities :
       started < MaxQtyRequests /\ StartModify(p, u, <<RemovePack("P", q)>>)
  \/ \E p \in Procs, q \in Quantities \ {0} :
       started < MaxQtyRequests
         /\ StartTransfer(p, "k1", <<Leg("A", "B", <<>>, <<PackMove("P", q)>>)>>)
  \/ \E p \in Procs, u \in {"A", "B"} :
       started < MaxQtyRequests /\ StartList(p, u, "pack", "", "P", 1)
  \/ \E p \in Procs : ModifyRead(p)
  \/ \E p \in Procs : ModifyPut(p)
  \/ \E p \in Procs : TransferGetMarker(p)
  \/ \E p \in Procs : TransferPutMarker(p)
  \/ \E p \in Procs : TransferRead(p)
  \/ \E p \in Procs : TransferCommit(p)
  \/ \E p \in Procs : TransferFinalize(p)
  \/ \E p \in Procs : ListQueryListings(p)
  \/ \E p \in Procs : ListRead(p)
  \/ \E p \in Procs : ListCommit(p)

SpecQty == Init /\ [][NextQty]_vars

(* ---------------------------------------------------------------- claims *)

Holders(c) == {u \in Users : c \in CardSet(inv[u].cards)}
Succeeded(r) == r.pc = "done" /\ r.resp.statusCode = 200

\* C1: every card that modify put into an inventory (and did not remove) is in some
\* user's inventory or in an active card listing, after any list, buy, unlist, transfer.
C1_CardConservation ==
  \A c \in live : Holders(c) # {} \/ cardListing[c].exists

\* C2: no card is at once in an inventory and the subject of an active listing row, and
\* the transaction that creates a card's listing row takes the card out of the seller's
\* inventory in the same step.
C2_Exclusive == \A c \in Cards : cardListing[c].exists => Holders(c) = {}
C2_ListRemovesCard ==
  \A c \in Cards :
    (~cardListing[c].exists /\ cardListing'[c].exists) =>
      /\ c \in CardSet(inv[cardListing'[c].sellerId].cards)
      /\ c \notin CardSet(inv'[cardListing'[c].sellerId].cards)
C3_ListThenBuy ==
  \A p \in Procs :
    LET r == req[p]
    IN (r.kind = "buy" /\ r.type = "card" /\ r.pc = "done" /\ r.listing.exists
        /\ r.listing.cost = r.cost /\ r.listing.sellerId # r.user)
       => /\ r.resp.statusCode = 200
          /\ r.card \in CardSet(inv[r.user].cards)
          /\ r.card \notin CardSet(inv[r.listing.sellerId].cards)
          /\ ~cardListing[r.card].exists

\* C4: the step that commits a successful unlist puts the item back into the seller's
\* inventory: the card is among the seller's cards, or the seller's count of the pack is
\* one higher (the row existing afterwards).
C4_UnlistReturnsItem ==
  [][\A p \in Procs :
       LET r == req[p]
       IN (r.kind = "unlist" /\ r.pc = "unlist_commit" /\ Succeeded(req'[p]))
          => IF r.type = "card"
             THEN r.card \in CardSet(inv'[r.user].cards)
             ELSE /\ inv'[r.user].exists
                  /\ inv'[r.user].packs[r.listing.packName]
                       = inv[r.user].packs[r.listing.packName] + 1]_vars


\* C5: a step that changes a user's stored inventory is the commit of a request that
\* read version v of it (or no row), finds exactly that in the store, and writes v + 1;
\* so a stored version only ever grows, in steps of one.
CommitPcs == {"mod_put", "list_commit", "unlist_commit", "buy_commit", "tr_commit"}
C5_WrittenBy(u, r) ==
  /\ r.pc \in CommitPcs
  /\ IF r.rd[u].exists
     THEN inv[u].exists /\ inv[u].version = r.rd[u].version
     ELSE ~inv[u].exists
  /\ inv'[u].version = r.rd[u].version + 1
C5_VersionStep ==
  [][\A u \in Users :
       inv'[u] # inv[u] =>
         /\ inv'[u].exists
         /\ inv'[u].version = inv[u].version + 1
         /\ \E p \in Procs : req'[p] # req[p] /\ C5_WrittenBy(u, req[p])]_vars
C5_Witness ==
  \E p \in Procs :
    /\ Succeeded(req[p]) /\ req[p].attempt > 0
    /\ req[p].kind \in {"modify", "list", "buy", "unlist", "transfer"}
    /\ \E u \in Users : inv[u].version >= 3

\* C6: no update of an inventory is lost: every stored pack count is the seeded count
\* plus the deltas of all the requests that committed, whatever their interleaving.
C6_NoLostUpdate ==
  \A u \in Users : \A n \in PackNames : inv[u].packs[n] = ledger[u][n]
C6_Witness ==
  /\ \A p \in Procs :
       /\ req[p].kind = "modify" /\ req[p].user = "A" /\ req[p].ops = <<AddPack("P", 0)>>
       /\ Succeeded(req[p])
  /\ \E p \in Procs : req[p].attempt > 0
  /\ inv["A"].packs["P"] = SeededInv["A"].packs["P"] + 2

\* C7: of two transfer requests with the same idempotency key in flight together, at
\* most one gets past the marker; the other answers Conflict with no business logic.
C7_MarkerMutualExclusion ==
  \A p, q \in Procs :
    (p # q /\ req[p].kind = "transfer" /\ req[q].kind = "transfer" /\ req[p].key = req[q].key)
      => ~(req[p].wrote /\ req[q].wrote)

\* C8: per idempotency key at most one inventory-committing transaction is executed.
C8_OneCommitPerKey == \A k \in Keys : keyCommits[k] <= 1

\* C9: a transfer request that wrote the processing marker and has answered leaves the
\* record completed, holding the status code and body it answered with.
C9_MarkerFinalized ==
  \A p \in Procs :
    LET r == req[p]
    IN (r.kind = "transfer" /\ r.pc = "done" /\ r.wrote)
       => /\ idem[r.key].exists
          /\ idem[r.key].status = "completed"
          /\ idem[r.key].statusCode = r.resp.statusCode
          /\ idem[r.key].response = r.resp

\* C10: a transfer request that finds a completed record for its key answers in that
\* step with the stored status code and body, having read and written no inventory and
\* changed no row.
C10_Replay ==
  [][\A p \in Procs :
       LET r == req[p]
       IN (r.kind = "transfer" /\ r.pc = "tr_get" /\ req'[p] # r
           /\ idem[r.key].exists /\ idem[r.key].status = "completed")
          => /\ req'[p].pc = "done"
             /\ req'[p].resp.statusCode = idem[r.key].statusCode
             /\ req'[p].resp = idem[r.key].response
             /\ req'[p].rd = r.rd /\ ~req'[p].wrote
             /\ UNCHANGED <<inv, market, idem, keyCommits, side, cache, rapFold>>]_vars
C10_Witness ==
  \E p, q \in Procs :
    /\ p # q /\ req[p].kind = "transfer" /\ req[q].kind = "transfer"
    /\ req[p].key = req[q].key /\ req[p].legs # req[q].legs
    /\ req[p].pc = "done" /\ req[p].wrote
    /\ req[q].pc = "done" /\ ~req[q].wrote
    /\ idem[req[q].key].exists /\ idem[req[q].key].status = "completed"
    /\ req[q].resp = idem[req[q].key].response
    /\ req[q].resp.statusCode = 200

\* C11: served alone, a transfer with the legs [A to B: X], [B to C: X] that finds X in
\* A's inventory passes the legs, commits at the first attempt and answers 200; the commit
\* leaves X in C's inventory only and raises the version of A, B and C by exactly one.
C11_ChainedLegs ==
  [][\A p \in Procs :
       LET r == req[p]
       IN (r.kind = "transfer" /\ r.legs = ChainedLegs /\ req'[p] # r)
          => /\ (r.pc = "tr_read" /\ Holders("X") = {"A"}) => req'[p].pc = "tr_commit"
             /\ r.pc = "tr_commit" =>
                  /\ req'[p].pc = "tr_final" /\ req'[p].resp.statusCode = 200
                  /\ Holders("X")' = {"C"}
                  /\ \A u \in Users : inv'[u].exists /\ inv'[u].version = inv[u].version + 1
             /\ (r.pc = "tr_final" /\ r.resp.statusCode = 200) => Succeeded(req'[p])]_vars
C11_Witness ==
  \E p \in Procs :
    /\ req[p].kind = "transfer" /\ req[p].legs = ChainedLegs /\ Succeeded(req[p])
    /\ Holders("X") = {"C"}
    /\ inv["A"].version = SeededInv["A"].version + 1
    /\ inv["B"].version = SeededInv["B"].version + 1
    /\ inv["C"].version = 1
\* C12: a card list request that answers while the card has an active listing answers
\* Conflict (409), and the listing row of the card is left as it was.
C12_DoubleListConflict ==
  [][\A p \in Procs :
       LET r == req[p]
       IN (r.kind = "list" /\ r.type = "card" /\ r.pc # "done" /\ req'[p].pc = "done"
           /\ cardListing[r.card].exists)
          => /\ req'[p].resp.statusCode = 409
             /\ cardListing'[r.card] = cardListing[r.card]]_vars
\* C13: a buy request, of a card or of a pack and by any buyer, that finds the listing
\* with a cost other than its expectedCost answers Conflict (409) and changes no listing
\* row, index row, inventory or RAP record.
C13_PriceMismatch ==
  [][\A p \in Procs :
       LET r == req[p]
       IN (r.kind = "buy" /\ r.pc = "buy_read" /\ req'[p] # r
           /\ listingRow(r).exists /\ listingRow(r).cost # r.cost)
          => /\ req'[p].pc = "done"
             /\ req'[p].resp.statusCode = 409
             /\ UNCHANGED <<inv, market>>]_vars
\* C14: an unlist request, of a card or of a pack, by a user who is not the sellerId of
\* the listing it finds answers Forbidden (403) and changes no listing row, index row or
\* inventory.
C14_UnlistForbidden ==
  [][\A p \in Procs :
       LET r == req[p]
       IN (r.kind = "unlist" /\ r.pc = "unlist_read" /\ req'[p] # r
           /\ listingRow(r).exists /\ listingRow(r).sellerId # r.user)
          => /\ req'[p].pc = "done"
             /\ req'[p].resp.statusCode = 403
             /\ UNCHANGED <<inv, market>>]_vars
C14_Witness ==
  \E p \in Procs :
    /\ req[p].kind = "unlist" /\ req[p].pc = "done" /\ req[p].resp.statusCode = 403
    /\ listingRow(req[p]).exists /\ listingRow(req[p]).sellerId # req[p].user
    /\ <<listingRow(req[p]).sellerId, req[p].type,
          IF req[p].type = "card" THEN req[p].card ELSE req[p].lid>> \in userListings
C16_ItemIndexConsistent ==
  /\ \A row \in itemListings :
       IF row[1] = "card" THEN cardListing[row[2]].exists ELSE packListing[row[2]].exists
  /\ \A c \in Cards : cardListing[c].exists => <<"card", c>> \in itemListings
  /\ \A l \in DOMAIN packListing : packListing[l].exists => <<"pack", l>> \in itemListings
\* C17: no user ever has more than MAX_LISTINGS active listings, also when list requests
\* of the same user run concurrently.
C17_ListingCap == \A u \in Users : listingCount(u) <= MAX_LISTINGS
\* the packs of one name that exist: in the inventories and in the active pack listings
RECURSIVE HeldPacks(_, _)
HeldPacks(users, n) ==
  IF users = {} THEN 0
  ELSE LET u == CHOOSE x \in users : TRUE
       IN inv[u].packs[n] + HeldPacks(users \ {u}, n)
ListedPacks(n) ==
  Cardinality({l \in DOMAIN packListing : packListing[l].exists /\ packListing[l].packName = n})
PackTotal(n) == HeldPacks(Users, n) + ListedPacks(n)

\* C18: for each pack name, the count over all inventories plus the number of active
\* listings of that pack is unchanged by every step of a list, unlist, buy or transfer
\* request (only the put of a modify request changes it), under any interleaving.
C18_PackConservation ==
  [][\/ \E p \in Procs : req[p].kind = "modify" /\ req[p].pc = "mod_put" /\ req'[p] # req[p]
     \/ \A n \in PackNames : PackTotal(n)' = PackTotal(n)]_vars
C18_Witness ==
  /\ \E p \in Procs :
       /\ req[p].kind = "buy" /\ req[p].type = "pack" /\ Succeeded(req[p])
       /\ inv[req[p].user].packs[req[p].listing.packName] > 0
  /\ ListedPacks("P") = 0
  /\ PackTotal("P") = SeededInv["A"].packs["P"]
\* C19: a request under withRetry makes at most MAX_RETRIES attempts; a cancelled
\* transaction on attempt k that is not the last one is followed by a delay of
\* baseDelayMs x k and another attempt, and on the last attempt by the answer 409.
C19_AttemptsBounded == \A p \in Procs : req[p].attempt < MAX_RETRIES
C19_ConflictStep ==
  \A p \in Procs :
    LET r == req[p]
        k == r.attempt + 1
    IN (r.kind = "transfer" /\ r.pc = "tr_commit" /\ req'[p] # r /\ ~transferConditions(r))
       => IF k < MAX_RETRIES
          THEN /\ req'[p].pc = "tr_read" /\ req'[p].attempt = r.attempt + 1
               /\ req'[p].slept = baseDelayMs("transfer") * k
          ELSE /\ req'[p].pc = "done" /\ req'[p].resp.statusCode = 409
               /\ req'[p].attempt = r.attempt
C19_BoundedRetry == [](C19_AttemptsBounded) /\ [][C19_ConflictStep]_vars
C19_Witness ==
  \E p \in Procs :
    /\ req[p].kind = "transfer" /\ req[p].pc = "done" /\ req[p].resp.statusCode = 409
    /\ req[p].wrote /\ req[p].attempt = MAX_RETRIES - 1
    /\ req[p].slept = baseDelayMs("transfer") * (MAX_RETRIES - 1)
    /\ req[p].raised = TransactionCanceled

\* C20: when a store call of the retried operation raises an error that is not a
\* cancelled transaction, on whatever attempt, the request makes no further attempt and
\* answers 500 at once, leaving the store as it is.
C20_NonRetryable ==
  [][\A p \in Procs :
       LET r == req[p]
       IN (r.pc \in FaultPcs /\ req'[p] # r /\ req'[p].raised \in StoreErrors)
          => /\ req'[p].pc = "done"
             /\ req'[p].resp.statusCode = 500
             /\ req'[p].attempt = r.attempt
             /\ UNCHANGED <<inv, market, idem>>]_vars
C20_Witness ==
  \E p \in Procs :
    /\ req[p].kind \in {"list", "buy", "transfer"} /\ req[p].pc = "done"
    /\ req[p].raised \in StoreErrors /\ req[p].attempt > 0
    /\ req[p].resp.statusCode = 500

\* C21: calculateNewRap returns the sale price when there is no prior RAP and
\* prior + (sale - prior) / 10 otherwise: (undefined, 100) gives 100, (100, 200) gives
\* 110; and a purchase that commits stores exactly this value, computed from the RAP row
\* it read and the cost of the listing, as the RAP of the item.
C21_Examples ==
  /\ calculateNewRap(NoRow, 100) = 100 * RapScale
  /\ calculateNewRap([exists |-> TRUE, rap |-> 100 * RapScale], 200) = 110 * RapScale
C21_StoredBySale ==
  [][\A p \in Procs :
       (BuyCommit(p) /\ req'[p].resp.statusCode = 200)
         => LET r == req[p]
                sale == r.listing.cost * RapScale
                stored == rap'[soldItem(r)]
            IN /\ stored.exists
               /\ stored.rap = calculateNewRap(r.rapItem, r.listing.cost)
               /\ IF r.rapItem.exists
                  THEN 10 * (stored.rap - r.rapItem.rap) = sale - r.rapItem.rap
                  ELSE stored.rap = sale]_vars
C21_RollingAverage == [](C21_Examples) /\ C21_StoredBySale
\* a sale at 200 that read a RAP of 100 has committed, and the RAP is 110
C21_Witness ==
  \E p \in Procs :
    /\ req[p].kind = "buy" /\ req[p].pc = "done" /\ req[p].resp.statusCode = 200
    /\ req[p].rapItem.exists /\ req[p].rapItem.rap = 100 * RapScale
    /\ req[p].listing.cost = 200
    /\ rap[<<"pack", "P">>].rap = 110 * RapScale

\* C22: after any set of committed sales of an item, the stored RAP is the rolling
\* average step applied once per sale in commit order: no sale's contribution is lost.
C22_RapPerSale ==
  \A i \in Items : rapFold[i].exists => (rap[i].exists /\ rap[i].rap = rapFold[i].rap)

\* a history request that ran the fetcher and has answered
Backfilled(r) == r.kind = "history" /\ r.pc = "done" /\ ~r.fromCache

\* the snapshots a history request decided to write for an item
SnapshotsOf(r, i) == {x \in r.snapshotItems : x.item = i}

\* C23: a backfill of an item whose lastSnapshotDate is d >= 1 days before today, with
\* no history entry after that date, writes exactly d entries, one per date of
\* (lastSnapshotDate, today], each with the RAP the record had before the backfill, and
\* sets lastSnapshotDate to today; a backfill that finds lastSnapshotDate = today
\* writes no entry, and history rows are written by nothing but these snapshots.
C23_Backfill ==
  \A p \in Procs : Backfilled(req[p]) =>
    \A i \in DOMAIN req[p].hist :
      LET r == req[p]
          record == r.rapRecords[i]
          last == record.lastSnapshotDate
          asRead == r.hist[i] \ {[date |-> x.date, rap |-> x.rap] : x \in SnapshotsOf(r, i)}
      IN /\ (last # Undefined /\ r.today - last >= 1 /\ \A h \in asRead : h.date <= last)
              => /\ Cardinality(SnapshotsOf(r, i)) = r.today - last
                 /\ {x.date : x \in SnapshotsOf(r, i)} = (last + 1)..r.today
                 /\ \A d \in (last + 1)..r.today :
                      history[i][d] = [exists |-> TRUE, rap |-> record.rap]
                 /\ rap[i].lastSnapshotDate = r.today
         /\ last = r.today => SnapshotsOf(r, i) = {}
C23_OnlySnapshots ==
  [][history' # history =>
       \E p \in Procs :
         /\ HistBatchPut(p)
         /\ \A i \in Items, d \in Days :
              history'[i][d] # history[i][d]
                => \E x \in SnapshotsOf(req[p], i) : x.date = d]_vars
C23_HistoryBackfill == [](C23_Backfill) /\ C23_OnlySnapshots
\* a backfill on day 3 of an item last snapshotted on day 0 has written days 1, 2, 3
C23_Witness ==
  \E p \in Procs :
    LET r == req[p]
        i == <<"pack", "P">>
    IN /\ Backfilled(r) /\ i \in DOMAIN r.hist
       /\ r.rapRecords[i].lastSnapshotDate = 0 /\ r.today = 3
       /\ Cardinality(SnapshotsOf(r, i)) = 3
       /\ \A d \in 1..3 : history[i][d].exists /\ history[i][d].rap = r.rapRecords[i].rap
       /\ rap[i].lastSnapshotDate = 3

\* C24: once the history entry of (item, date) is written, its rap never changes, also
\* when two backfills run concurrently and a sale changes the RAP between their reads.
C24_HistoryImmutable ==
  [][\A i \in Items, d \in Days :
       history[i][d].exists => history'[i][d] = history[i][d]]_vars

\* C25: once a history backfill of an item has completed on day T, the stored history
\* of the item has an entry for every date from its earliest entry through T.
C25_GapFree ==
  \A p \in Procs : Backfilled(req[p]) =>
    \A i \in DOMAIN req[p].hist :
      \A d \in Days :
        ((\E e \in Days : e <= d /\ history[i][e].exists) /\ d <= req[p].today)
          => history[i][d].exists

\* the sellers of the listings a find-sellers request works on
SellerIdsOf(r) == {r.listings[i].sellerId : i \in DOMAIN r.listings}

\* the keys of a cachedBatch call that the Map of process h does not serve: no entry, or
\* one whose expiry has passed
MissedBy(h, ids) ==
  {u \in ids : ~(cache[h][sellerKey(u)].exists /\ cache[h][sellerKey(u)].expiresAt >= now)}

\* C26: a cachedBatch call invokes its fetcher at most once, with exactly the keys that
\* missed in the cache (unexpired hits excluded), and not at all when every key hits; the
\* map it returns is the hits merged with the fetched entries, and every fetched entry is
\* stored in the cache with the given TTL.
C26_Call ==
  [][\A p \in Procs :
       LET r == req[p]
           q == req'[p]
           missed == MissedBy(host[p], SellerIdsOf(q))
       IN (q.kind = "find" /\ q # r /\ r.pc # "find_sellers" /\ q.listings # <<>>
             /\ q.pc \in {"find_sellers", "done"})
          => /\ q.fetches = 0
             /\ q.pc = "find_sellers" <=> missed # {}
             /\ q.pc = "find_sellers" => q.missing = missed
             /\ DOMAIN q.sellers = SellerIdsOf(q) \ missed
             /\ \A u \in DOMAIN q.sellers : q.sellers[u] = cache[host[p]][sellerKey(u)].data
     ]_vars
C26_Fetch ==
  [][\A p \in Procs :
       LET r == req[p]
           q == req'[p]
       IN (r.kind = "find" /\ r.pc = "find_sellers" /\ q # r)
          => /\ q.fetches = 1
             /\ q.fetchedKeys = r.missing
             /\ DOMAIN q.sellers = SellerIdsOf(r)
             /\ \A u \in SellerIdsOf(r) :
                  q.sellers[u] = IF u \in r.missing THEN activeSeller[u] ELSE r.sellers[u]
             /\ \A u \in r.missing :
                  LET entry == cache'[host[p]][sellerKey(u)]
                  IN entry.exists /\ entry.data = activeSeller[u]
                       /\ entry.expiresAt = now + 10000
     ]_vars
C26_CachedBatch ==
  /\ [](\A p \in Procs : req[p].fetches <= 1)
  /\ C26_Call
  /\ C26_Fetch

\* a call with a hit and a miss: the fetcher ran once, for B alone, and A came from the Map
C26_Witness ==
  \E p \in Procs :
    /\ req[p].kind = "find" /\ req[p].pc = "done"
    /\ req[p].fetches = 1 /\ req[p].fetchedKeys = {"B"}
    /\ DOMAIN req[p].sellers = {"A", "B"}
    /\ cache[host[p]][sellerKey("B")].expiresAt = now + 10000

\* C30: with a RAP r, the listings whose cost lies in 0.95 r .. 1.30 r precede all the
\* others and the costs do not decrease within each of the two groups; without a RAP the
\* costs do not decrease over the whole answer.
C30_Ranking ==
  \A p \in Procs :
    (req[p].kind = "find" /\ req[p].pc = "done") =>
      LET s == req[p].result
          rv == req[p].rapVal
          InBand(l) == 95 * rv <= l.cost * 100 * RapScale /\ l.cost * 100 * RapScale <= 130 * rv
      IN \A i, j \in DOMAIN s :
           i < j =>
             IF rv = Undefined
             THEN s[i].cost <= s[j].cost
             ELSE /\ InBand(s[j]) => InBand(s[i])
                  /\ (InBand(s[i]) <=> InBand(s[j])) => s[i].cost <= s[j].cost

\* an answer in which a listing in the band precedes a cheaper one below the band
C30_Witness ==
  \E p \in Procs :
    /\ req[p].kind = "find" /\ req[p].pc = "done" /\ req[p].rapVal = 100 * RapScale
    /\ Len(req[p].result) = 3
    /\ req[p].result[1].cost = 95 /\ req[p].result[2].cost = 90
    /\ req[p].result[3].cost = 140

\* C27: once a list request has committed a new listing of an item, no find-sellers
\* request that starts later in the same process is answered from an entry of the listing
\* index that was put into the cache before that commit (the item index only grows, so
\* such an entry was set when the index had fewer rows than at the start of the request).
C27_ListInvalidates ==
  \A p \in Procs :
    (req[p].kind = "find" /\ req[p].fromCache) => req[p].entryAsOf >= req[p].startAsOf

\* C28: after a successful purchase of an item, the cache of the process that served it
\* holds no entry for the listing index of the item, for its RAP, or for the aggregate
\* history.
C28_BuyInvalidates ==
  [][\A p \in Procs :
       (req[p].kind = "buy" /\ req[p].pc = "buy_commit" /\ req'[p].pc = "done"
          /\ req'[p].resp.statusCode = 200)
       => LET entries == cache'[host[p]]
              I == soldItem(req[p])
          IN /\ ~entries[listingsKey(I)].exists
             /\ ~entries[rapKey(I)].exists
             /\ ~entries[historyKey].exists
     ]_vars

\* the answers of the request-shape validations
ShapeErrors ==
  {"at least one operation is required", "cost must be a positive integer",
   "invalid transfer request"}

\* the request has been rejected by a request-shape validation
ShapeRejected(r) ==
  /\ r.kind \in {"list", "buy", "unlist", "modify", "transfer"}
  /\ r.resp.statusCode = 400 /\ r.resp.msg \in ShapeErrors

\* C29: a list, buy, unlist, modify or transfer request that is rejected for malformed or
\* invalid input (BadRequest of the request-shape validation) performs no store write:
\* no step of such a request changes a row, and it has written no idempotency marker.
C29_RejectedWritesNothing ==
  /\ [](\A p \in Procs : ShapeRejected(req[p]) => ~req[p].wrote)
  /\ [][\A p \in Procs :
          (req'[p] # req[p] /\ ShapeRejected(req'[p])) => UNCHANGED store]_vars

\* C31: the answer of a find-sellers request holds only listings whose seller has a
\* status record that is active and was last updated less than 60 seconds before the
\* request answers; a seller without a record, with an inactive one or with a stale one
\* has no listing in the answer.  The record is the row the store held at the moment
\* the request looked the seller's status up.
C31_OnlyLiveSellers ==
  [][\A p \in Procs :
       (req'[p].kind = "find" /\ req'[p].pc = "done" /\ req'[p] # req[p])
       => \A i \in DOMAIN req'[p].result :
            LET status == req'[p].stored[req'[p].result[i].sellerId]
            IN status.exists /\ status.active /\ now - status.lastUpdated < 60000
     ]_vars

\* C32: a successful pack purchase leaves the inventory row of the seller as it was,
\* raises the buyer's count of the pack by exactly 1 and the buyer's version by exactly 1
\* (a buyer without a row gets one at version 1 with one pack), leaves the buyer's cards
\* alone and removes the pack listing.
C32_PackPurchaseFrame ==
  [][\A p \in Procs :
       LET r == req[p]
           b == r.user
           s == r.listing.sellerId
           n == r.listing.packName
       IN (r.kind = "buy" /\ r.type = "pack" /\ r.pc = "buy_commit"
             /\ req'[p].pc = "done" /\ req'[p].resp.statusCode = 200)
          => /\ inv'[s] = inv[s]
             /\ inv'[b].exists
             /\ inv'[b].packs[n] = (IF inv[b].exists THEN inv[b].packs[n] ELSE 0) + 1
             /\ inv'[b].version = (IF inv[b].exists THEN inv[b].version ELSE 0) + 1
             /\ inv'[b].cards = (IF inv[b].exists THEN inv[b].cards ELSE <<>>)
             /\ \A u \in Users \ {b} : inv'[u] = inv[u]
             /\ packListing[r.lid].exists /\ ~packListing'[r.lid].exists
     ]_vars

\* C, who had no inventory row, has bought a pack
C32_Witness ==
  \E p \in Procs :
    /\ req[p].kind = "buy" /\ req[p].type = "pack" /\ req[p].user = "C"
    /\ req[p].pc = "done" /\ req[p].resp.statusCode = 200
    /\ inv["C"].exists /\ inv["C"].version = 1 /\ inv["C"].packs["P"] = 1
    /\ ~packListing[req[p].lid].exists

\* C33: a card purchase that finds the listing row but not the card in the seller's
\* inventory goes to the orphan cleanup and answers Gone; it changes no inventory and no
\* RAP record; when the cleanup transaction succeeds neither the listing row nor the
\* seller-index row of the card is left, and when it fails the answer is Gone all the same.
C33_Orphan ==
  [][\A p \in Procs :
       LET r == req[p]
           s == r.listing.sellerId
       IN /\ (r.kind = "buy" /\ r.type = "card" /\ r.pc = "buy_inv" /\ req'[p] # r
                /\ req'[p].raised = r.raised
                /\ inv[s].exists /\ \A i \in DOMAIN inv[s].cards : inv[s].cards[i] # r.card)
             => (req'[p].pc = "buy_cleanup" /\ UNCHANGED store)
          /\ (r.kind = "buy" /\ r.pc = "buy_cleanup" /\ req'[p] # r)
             => /\ req'[p].pc = "done" /\ req'[p].resp.statusCode = 410
                /\ UNCHANGED <<inv, rap, rapRegistry>>
                /\ req'[p].raised = "" =>
                     /\ ~cardListing'[r.card].exists
                     /\ \A row \in userListings' : ~(row[2] = "card" /\ row[3] = r.card)
                /\ req'[p].raised # "" => UNCHANGED store
     ]_vars

\* an orphan cleanup has succeeded: Gone, and the rows of the card are deleted
C33_Witness ==
  \E p \in Procs :
    /\ req[p].kind = "buy" /\ req[p].type = "card" /\ req[p].pc = "done"
    /\ req[p].resp.statusCode = 410 /\ req[p].raised = ""
    /\ ~cardListing[req[p].card].exists
    /\ \A row \in userListings : ~(row[2] = "card" /\ row[3] = req[p].card)
    /\ \A u \in Users : \A i \in DOMAIN inv[u].cards : inv[u].cards[i] # req[p].card

\* the purchase of process p commits in this step
Commits(p) ==
  /\ req[p].kind = "buy" /\ req[p].pc = "buy_commit"
  /\ req'[p].pc = "done" /\ req'[p].resp.statusCode = 200

\* C34: a registry entry exists for an item exactly when a RAP record exists for it; the
\* entry is written once, by the first committed sale of the item (a sale that read no RAP
\* record), and never again: a purchase that read no RAP record and reaches its
\* transaction after the entry was written commits nothing and goes back to its reads,
\* and every later committed sale takes the update path and leaves the registry alone.
C34_RegistryIffRecord == \A i \in Items : (i \in rapRegistry) <=> rap[i].exists
C34_WrittenOnce ==
  [][/\ rapRegistry \subseteq rapRegistry'
     /\ \A i \in rapRegistry' \ rapRegistry :
          \E p \in Procs : Commits(p) /\ soldItem(req[p]) = i /\ ~req[p].rapItem.exists
     /\ \A p \in Procs :
          LET r == req[p]
          IN /\ (Commits(p) /\ ~r.rapItem.exists)
                => (soldItem(r) \notin rapRegistry /\ soldItem(r) \in rapRegistry')
             /\ (Commits(p) /\ r.rapItem.exists) => rapRegistry' = rapRegistry
             /\ (r.kind = "buy" /\ r.pc = "buy_commit" /\ req'[p] # r
                   /\ ~r.rapItem.exists /\ soldItem(r) \in rapRegistry)
                => /\ UNCHANGED store
                   /\ req'[p].pc = "buy_read" /\ req'[p].attempt = r.attempt + 1
    ]_vars
C34_Registry == [](C34_RegistryIffRecord) /\ C34_WrittenOnce

\* two first sales of P raced: the purchase of one buyer committed the create path at
\* its first attempt, the purchase of the other was cancelled, read the record at its
\* second attempt and committed the update path
C34_Witness ==
  \E p, q \in Procs :
    /\ req[p].kind = "buy" /\ req[p].pc = "done" /\ req[p].resp.statusCode = 200
    /\ req[q].kind = "buy" /\ req[q].pc = "done" /\ req[q].resp.statusCode = 200
    /\ req[p].user # req[q].user
    /\ req[p].attempt = 0 /\ ~req[p].rapItem.exists
    /\ req[q].attempt = 1 /\ req[q].rapItem.exists /\ req[q].raised = TransactionCanceled
    /\ rapRegistry = {<<"pack", "P">>}

\* C35: a modify request of which an operation fails returns the error of that operation
\* (NotFound or BadRequest) and leaves every stored inventory, version included, as it
\* was: a modify request changes an inventory only in the step that answers 200, so the
\* operations applied in memory before the failure leave no trace.
C35_AllOrNothing ==
  [][\A p \in Procs :
       LET r == req[p]
       IN (r.kind = "modify" /\ req'[p] # r)
          => /\ (req'[p].pc = "done" /\ req'[p].resp.statusCode \in {400, 404, 409})
                  => UNCHANGED store
             /\ inv' # inv => (req'[p].pc = "done" /\ req'[p].resp.statusCode = 200)
             /\ req'[p].pc # "done" => UNCHANGED store
    ]_vars

\* a request whose first operation added a pack in memory failed at its second one
\* (NotFound): the stored inventory of its user is the seeded one
C35_Witness ==
  \E p \in Procs :
    /\ req[p].kind = "modify" /\ req[p].pc = "done" /\ req[p].resp.statusCode = 404
    /\ Len(req[p].ops) = 2 /\ req[p].ops[1].action = "addPack"
    /\ inv[req[p].user] = SeededInv[req[p].user]
    /\ started = 1

C36_AttemptsBounded == \A p \in Procs : req[p].attempt + 1 <= MAX_RETRIES

\* a busy request's attempt number only grows, by one, to at most MAX_RETRIES attempts; a
\* commit that fails ends the request only on the last attempt, with Conflict, and the last
\* attempt's commit never goes back to reading
C36_AttemptStep ==
  \A p \in Procs :
    LET r == req[p]
        last == r.attempt + 1 = MAX_RETRIES
    IN (Busy(p) /\ req'[p] # r)
       => /\ req'[p].attempt \in {r.attempt, r.attempt + 1}
          /\ req'[p].attempt = r.attempt + 1 => ~last /\ r.pc \in CommitPcs
          /\ (r.pc \in CommitPcs /\ req'[p].pc = "done" /\ req'[p].resp.statusCode # 200)
               => last /\ req'[p].resp.statusCode = 409
          /\ (r.pc \in CommitPcs /\ last) => req'[p].pc \in {"done", "tr_final"}

\* C36: every list, buy, unlist, modify and transfer request makes at most 5
\* read-validate-commit attempts and, whatever the concurrent requests do, returns a
\* response; under sustained conflicts the response is Conflict.
C36_BoundedTermination ==
  /\ [](C36_AttemptsBounded)
  /\ [][C36_AttemptStep]_vars
  /\ \A p \in Procs : Busy(p) ~> (req[p].pc = "done")

\* a purchase whose every attempt lost to a concurrent write answered Conflict after the
\* fifth attempt
C36_Witness ==
  /\ req[1].kind = "buy" /\ req[1].pc = "done"
  /\ req[1].attempt + 1 = MAX_RETRIES /\ req[1].resp.statusCode = 409
  /\ req[1].slept = retryDelay("buy", MAX_RETRIES - 2)

\* two purchase requests for the same card listing or pack listing
SameListing(r, s) ==
  /\ r.kind = "buy" /\ s.kind = "buy" /\ r.type = s.type
  /\ IF r.type = "pack" THEN r.lid = s.lid ELSE r.card = s.card

\* of two purchases of one listing, the one that ends beside a successful one has not
\* succeeded, and unless its buyer is the seller it answered NotFound, Gone or Conflict
C37_OneWinner ==
  \A p, q \in Procs :
    (p # q /\ SameListing(req[p], req[q]) /\ Succeeded(req[p]) /\ req[q].pc = "done")
    => /\ req[q].resp.statusCode # 200
       /\ req[q].user # req[p].listing.sellerId
            => req[q].resp.statusCode \in {404, 410, 409}

\* a step of a purchase changes inventories only when it ends the request with success:
\* then it removes the listing row and changes the inventory of the buyer (and, for a
\* card, of the seller) and of nobody else
C37_BuyStep ==
  \A p \in Procs :
    LET r == req[p]
        won == req'[p].pc = "done" /\ req'[p].resp.statusCode = 200
    IN (r.kind = "buy" /\ Busy(p) /\ req'[p] # r)
       => IF won
          THEN /\ listingRow(r).exists
               /\ IF r.type = "pack" THEN ~packListing'[r.lid].exists
                                     ELSE ~cardListing'[r.card].exists
               /\ inv'[r.user] # inv[r.user]
               /\ \A u \in Users \ {r.user, r.listing.sellerId} : inv'[u] = inv[u]
               /\ r.type = "pack" => inv'[r.listing.sellerId] = inv[r.listing.sellerId]
          ELSE inv' = inv

BusinessFailure(resp) == resp.statusCode \in {400, 404}

\* a step of a transfer changes inventories only when it is the commit that succeeds; the
\* step at which a leg fails changes none, and neither does the step that records the
\* failure, which answers with the failure it recorded
C38_TransferStep ==
  \A p \in Procs :
    LET r == req[p]
    IN (r.kind = "transfer" /\ Busy(p) /\ req'[p] # r)
       => /\ inv' # inv => /\ r.pc = "tr_commit"
                           /\ req'[p].pc = "tr_final" /\ req'[p].resp.statusCode = 200
          /\ (r.pc = "tr_read" /\ req'[p].pc = "tr_final") => BusinessFailure(req'[p].resp)
          /\ (r.pc = "tr_final" /\ BusinessFailure(r.resp))
               => req'[p].pc = "done" /\ req'[p].resp = r.resp

\* served alone, a transfer that answered with a business-rule failure leaves every
\* stored inventory and version as before the request
C38_AloneUnchanged ==
  \A p \in Procs :
    (started = 1 /\ req[p].kind = "transfer" /\ req[p].pc \in {"tr_final", "done"}
       /\ BusinessFailure(req[p].resp))
    => inv = SeededInv

\* C38: a transfer that ends with a business-rule failure at any leg (source inventory
\* missing, card not in the source inventory, insufficient packs) commits no inventory
\* change, even when earlier legs had already been applied in memory.
C38_FailedTransferFrame == [](C38_AloneUnchanged) /\ [][C38_TransferStep]_vars

\* the first leg moved X from A to B in memory and the second leg failed for lack of
\* packs: the request has answered 400 and X is still in A's stored inventory at version 1
C38_Witness ==
  \E p \in Procs :
    /\ req[p].kind = "transfer" /\ req[p].pc = "done" /\ req[p].resp.statusCode = 400
    /\ Len(req[p].legs) = 2 /\ req[p].legs[1].cards = <<"X">>
    /\ req[p].legs[2].packs # <<>>
    /\ started = 1 /\ inv = SeededInv /\ idem[req[p].key].exists

\* C39: in every reachable state every pack count of every stored inventory is positive
\* (an inventory holds no entry whose count is zero or negative; a pack the inventory does
\* not hold counts 0 here), for all integer quantities of addPack, removePack and transfer.
C39_PackCountsPositive ==
  \A u \in Users, n \in PackNames : inv[u].exists => inv[u].packs[n] >= 0

\* C40: once the idempotency record of a key is completed, no step changes it: its status
\* stays completed and its stored status code and response body stay what they are, under
\* any interleaving of the transfer requests that carry the key.
C40_CompletedIsFinal ==
  [][\A k \in Keys :
       (idem[k].exists /\ idem[k].status = "completed") => idem'[k] = idem[k]
    ]_vars

====
